---- MODULE Spec2Model ----
(***************************************************************************)
(* State-machine model of the M2Y messaging backend: the message store and *)
(* its read paths (message.controller.js), the media store                 *)
(* (media.controller.js), the group / invite / nickname ledger             *)
(* (group.controller.js), the reactions and the envelope codec             *)
(* (encryption.util.js).  Handlers that the concurrency properties are     *)
(* about are split at their `await` points; a step is the synchronous code *)
(* that follows one await together with the database call that ends it.    *)
(***************************************************************************)
EXTENDS Integers, Sequences, FiniteSets, TLC

VARIABLES
    now,        \* the clock the handlers read with `new Date()`
    msgs,       \* Message collection: a set of records
    files,      \* names of the files present under MEDIA_STORAGE_PATH
    groups,     \* Group collection: group id -> record (existing groups only)
    invites,    \* GroupInvite collection: a set of records
    nicknames,  \* MemberNickname collection: a set of records
    reactions,  \* Reaction collection: a set of records
    media,      \* media requests in flight: slot -> record
    greqs,      \* group requests in flight: slot -> record
    rreqs,      \* reaction requests in flight: slot -> record
    resp,       \* the last response sent by a handler
    lastTransfer, \* history: group id -> <<from, to>> of its last completed transferOwnership
    superseded, \* history: the invite codes that a completed generateGroupInvite found issued
    codec,      \* a run of the envelope codec: its inputs, the envelope or blob, the result
    otps        \* OtpData collection: a set of records, one per user at most

vars == <<now, msgs, files, groups, invites, nicknames, reactions, media, greqs, rreqs, resp,
          lastTransfer, superseded, codec, otps>>

-----------------------------------------------------------------------------
(* Bounds of the model *)

MaxTime == 2
MaxMsgs == 2
MaxInvites == 3
MaxReaders == 2
MaxGroupReqs == 2
MaxMembers == 3
MaxReactReqs == 2

(* Program constants *)

InviteTTL == 604800     \* 7 days, in clock units of one second

-----------------------------------------------------------------------------
(* Values *)

NULL == "null"
NullTime == 0 - 1       \* a null DateTime / an absent expiresAt
Users == {"u1", "u2", "u3"}
GroupIds == {"g1", "g2"}
Files == {"f1"}
MsgIds == 1..MaxMsgs

UserName(u) == CASE u = "u1" -> "name1" [] u = "u2" -> "name2" [] OTHER -> "name3"
PhoneNumber(u) == CASE u = "u1" -> "+1" [] u = "u2" -> "+2" [] OTHER -> "+3"

\* Array.prototype.includes on memberIds
Includes(seq, x) == \E i \in 1..Len(seq) : seq[i] = x
\* memberIds.filter(id => id !== x)
Without(seq, x) == SelectSeq(seq, LAMBDA y : y # x)

\* mediaUrl: { contains: sanitizedFilename }; stored urls are "/api/media/<name>"
\* with uuid names, none a substring of another, so the url is kept as its name.
Contains(url, fname) == url # NULL /\ url = fname

IsMember(g, u) == g \in DOMAIN groups /\ Includes(groups[g].memberIds, u)

\* no run of the codec
NoCodec == [pc |-> "none"]

NoResp == [op |-> "none", actor |-> NULL, status |-> 0, at |-> 0, data |-> {}]
Reply(op, actor, status, data) ==
    [op |-> op, actor |-> actor, status |-> status, at |-> now, data |-> data]

msgVars == <<msgs>>
groupVars == <<groups, invites, nicknames>>
reqVars == <<media, greqs, rreqs>>
histVars == <<lastTransfer, superseded>>

-----------------------------------------------------------------------------
(* message.controller.js *)

\* ids are given in order of creation
FreshMsgId ==
    CHOOSE i \in MsgIds : /\ \A m \in msgs : m.id # i
                          /\ \A j \in MsgIds : j < i => \E m \in msgs : m.id = j

\* prisma.message.create: the record sendMessage stores
NewMessage(senderId, receiverId, groupId, mediaUrl, isAnonymous, expiresAt) ==
    [id |-> FreshMsgId,
     senderId |-> senderId,
     receiverId |-> receiverId,
     groupId |-> groupId,
     mediaUrl |-> mediaUrl,
     mediaType |-> IF mediaUrl = NULL THEN NULL ELSE "image",
     isRead |-> FALSE,
     isDelivered |-> FALSE,
     isAnonymous |-> isAnonymous,
     expiresAt |-> expiresAt,
     deleted |-> FALSE]

\* The status sendMessage answers with; 201 is the only one that stores.
\* expiresAt is a const binding of the destructured body: the assignment of the
\* group's default expiry to it throws a TypeError, caught as a 500.
SendStatus(senderId, receiverId, groupId, isAnonymous, expiresAt) ==
    IF receiverId = NULL /\ groupId = NULL THEN 400
    ELSE IF groupId # NULL /\ groupId \notin DOMAIN groups THEN 404
    ELSE IF groupId # NULL /\ ~Includes(groups[groupId].memberIds, senderId) THEN 403
    ELSE IF groupId # NULL /\ isAnonymous /\ ~groups[groupId].allowAnonymous THEN 403
    ELSE IF groupId # NULL /\ expiresAt = NullTime /\ groups[groupId].messageExpiry # 0 THEN 500
    ELSE 201

sendMessage(senderId, receiverId, groupId, mediaUrl, isAnonymous, expiresAt) ==
    LET status == SendStatus(senderId, receiverId, groupId, isAnonymous, expiresAt)
        message == NewMessage(senderId, receiverId, groupId, mediaUrl, isAnonymous, expiresAt)
    IN /\ status = 201 => Cardinality(msgs) < MaxMsgs
       /\ msgs' = IF status = 201 THEN msgs \cup {message} ELSE msgs
       /\ resp' = Reply("sendMessage", senderId, status, IF status = 201 THEN {message} ELSE {})
       /\ UNCHANGED <<otps, codec, now, files, groupVars, reactions, reqVars, histVars>>

\* A JavaScript object literal that names one key twice keeps the value given last.
DuplicateKey(first, second) == second

\* OR: [{senderId: cur, receiverId: other}, {senderId: other, receiverId: cur}]
ParticipantsOr(m, cur, other) ==
    \/ m.senderId = cur /\ m.receiverId = other
    \/ m.senderId = other /\ m.receiverId = cur

\* the expiry clause with its comparison turned round
NotExpiredOr_Flipped(m, t) == m.expiresAt = NullTime \/ m.expiresAt < t

\* OR: [{expiresAt: null}, {expiresAt: {gt: new Date()}}]
NotExpiredOr(m, t) == m.expiresAt = NullTime \/ m.expiresAt > t

\* the `where` of getMessagesByUser's findMany: both clauses are written under
\* the key OR of one object literal
ConversationWhere(m, cur, other, t) ==
    /\ DuplicateKey(ParticipantsOr(m, cur, other), NotExpiredOr(m, t))
    /\ m.deleted = FALSE

\* include: { reactions: true }
WithReactions(m) ==
    [id |-> m.id, senderId |-> m.senderId, receiverId |-> m.receiverId,
     groupId |-> m.groupId, mediaUrl |-> m.mediaUrl, mediaType |-> m.mediaType,
     isRead |-> m.isRead,
     isDelivered |-> m.isDelivered, isAnonymous |-> m.isAnonymous,
     expiresAt |-> m.expiresAt, deleted |-> m.deleted,
     reactions |-> {r \in reactions : r.messageId = m.id}]

\* updateMany({senderId: other, receiverId: cur, isDelivered: false}, {isDelivered: true})
\* the updateMany with sender and receiver exchanged
MarkDelivered_OwnMessages(m, cur, other) ==
    IF m.senderId = cur /\ m.receiverId = other /\ ~m.isDelivered
    THEN [m EXCEPT !.isDelivered = TRUE] ELSE m

MarkDelivered(m, cur, other) ==
    IF m.senderId = other /\ m.receiverId = cur /\ ~m.isDelivered
    THEN [m EXCEPT !.isDelivered = TRUE] ELSE m

getMessagesByUser(cur, other) ==
    /\ resp' = Reply("getMessagesByUser", cur, 200,
                     {WithReactions(m) : m \in {x \in msgs : ConversationWhere(x, cur, other, now)}})
    /\ msgs' = {MarkDelivered(m, cur, other) : m \in msgs}
    /\ UNCHANGED <<otps, codec, now, files, groupVars, reactions, reqVars, histVars>>

\* the `where` of getGroupMessages's findMany
GroupWhere(m, groupId, t) ==
    /\ m.groupId = groupId
    /\ m.deleted = FALSE
    /\ NotExpiredOr(m, t)

\* sender: { select: { id, username, phoneNumber, profilePic } }
SenderOf(m) ==
    [id |-> m.senderId, username |-> UserName(m.senderId), phoneNumber |-> PhoneNumber(m.senderId)]

\* {...message, sender: s}: every scalar column of the message stays in the record
Spread(m, s) ==
    [id |-> m.id, senderId |-> m.senderId, receiverId |-> m.receiverId,
     groupId |-> m.groupId, mediaUrl |-> m.mediaUrl, mediaType |-> m.mediaType,
     isRead |-> m.isRead,
     isDelivered |-> m.isDelivered, isAnonymous |-> m.isAnonymous,
     expiresAt |-> m.expiresAt, deleted |-> m.deleted,
     reactions |-> {r \in reactions : r.messageId = m.id},
     sender |-> s]

AnonymousSender == [id |-> NULL, username |-> "Anonymous"]

\* messages.map(message => ...) of getGroupMessages
MapNickname(m, groupId) ==
    LET nick == {n \in nicknames : n.userId = m.senderId /\ n.groupId = groupId}
    IN IF m.isAnonymous THEN Spread(m, AnonymousSender)
       ELSE IF nick # {}
       THEN LET n == CHOOSE n \in nick : TRUE
            IN Spread(m, [id |-> m.senderId, username |-> n.nickname,
                          phoneNumber |-> PhoneNumber(m.senderId),
                          isNickname |-> TRUE, isVisible |-> n.isVisible])
       ELSE Spread(m, SenderOf(m))

GroupMessagesStatus(cur, groupId) ==
    IF groupId \notin DOMAIN groups THEN 404
    ELSE IF ~Includes(groups[groupId].memberIds, cur) THEN 403
    ELSE 200

getGroupMessages(cur, groupId) ==
    LET status == GroupMessagesStatus(cur, groupId)
    IN /\ resp' = Reply("getGroupMessages", cur, status,
                        IF status = 200
                        THEN {MapNickname(m, groupId) : m \in {x \in msgs : GroupWhere(x, groupId, now)}}
                        ELSE {})
       /\ UNCHANGED <<otps, codec, now, msgs, files, groupVars, reactions, reqVars, histVars>>

\* the sender check of deleteMessage left out
DeleteStatus_AnyActor(found, userId) ==
    IF found = {} THEN 404 ELSE 200

\* deleteMessage, lines 356-373: the status its checks give on the message read
DeleteStatus(found, userId) ==
    IF found = {} THEN 404
    ELSE IF \E m \in found : m.senderId # userId THEN 403
    ELSE 200

\* the deleted flag toggled instead of set
Tombstone_Toggle(m) == [m EXCEPT !.deleted = ~m.deleted]

\* data: { deleted: true }
Tombstone(m) == [m EXCEPT !.deleted = TRUE]

\* deleteMessage, lines 351-393
deleteMessage(userId, messageId) ==
    LET found == {m \in msgs : m.id = messageId}
        status == DeleteStatus(found, userId)
    IN /\ msgs' = IF status = 200
                  THEN {IF m.id = messageId THEN Tombstone(m) ELSE m : m \in msgs}
                  ELSE msgs
       /\ resp' = Reply("deleteMessage", userId, status, {[messageId |-> messageId]})
       /\ UNCHANGED <<otps, codec, now, files, groupVars, reactions, reqVars, histVars>>

-----------------------------------------------------------------------------
(* media.controller.js *)

IdleMedia ==
    [pc |-> "idle", actor |-> NULL, file |-> NULL, found |-> {}, access |-> FALSE,
     status |-> 0, mode |-> "none", unlink |-> "none", at |-> 0]

\* the request has answered with `status`
MediaDone(s, status, mode) ==
    media' = [media EXCEPT ![s].pc = "done", ![s].status = status, ![s].mode = mode, ![s].at = now]

\* the update with isRead alone
SetReadDelivered_ReadOnly(m) == [m EXCEPT !.isRead = TRUE]

SetReadDelivered(m) == [m EXCEPT !.isRead = TRUE, !.isDelivered = TRUE]

\* prisma.message.update({where: {id}, data: {isRead: true, isDelivered: true}})
\* on the record as stored now
UpdateMessage(id) == {IF m.id = id THEN SetReadDelivered(m) ELSE m : m \in msgs}

\* an update that rebuilds the record from its defaults
ClearMedia_Defaults(m) ==
    [m EXCEPT !.mediaUrl = NULL, !.mediaType = NULL, !.isRead = FALSE, !.isDelivered = FALSE]

\* data: {mediaUrl: null, mediaType: null}
ClearMedia(m) == [m EXCEPT !.mediaUrl = NULL, !.mediaType = NULL]

\* message.expiresAt && message.expiresAt < new Date()
MediaExpired(m, t) == m.expiresAt # NullTime /\ m.expiresAt < t

\* message.expiresAt && !message.isRead
IsViewOnce(m) == m.expiresAt # NullTime /\ ~m.isRead

\* getMedia, lines 90-110: fs.existsSync, then findFirst (no orderBy: any match)
getMediaLookup(s, actor, f) ==
    /\ media[s].pc \in {"idle", "done"}
    /\ IF f \notin files
       THEN media' = [media EXCEPT ![s] = [IdleMedia EXCEPT !.pc = "done", !.actor = actor,
                                            !.file = f, !.status = 404, !.at = now]]
       ELSE LET matches == {m \in msgs : Contains(m.mediaUrl, f)}
            IN \E found \in (IF matches = {} THEN {{}} ELSE {{m} : m \in matches}) :
                  media' = [media EXCEPT ![s] = [IdleMedia EXCEPT !.pc = "found", !.actor = actor,
                                                  !.file = f, !.found = found]]
    /\ UNCHANGED <<otps, codec, now, msgs, files, groupVars, reactions, greqs, rreqs, resp, histVars>>

\* res.sendFile(filePath) of a regular file; a missing file is answered by the
\* error handler with the error's status, 404
SendRegular(s) ==
    /\ MediaDone(s, IF media[s].file \in files THEN 200 ELSE 404, "regular")
    /\ UNCHANGED <<msgs, files>>

\* getMedia, lines 132-174, once hasAccess is known
MediaDecide(s, access) ==
    LET r == media[s]
        m == CHOOSE m \in r.found : TRUE
    IN IF ~access
       THEN MediaDone(s, 403, "none") /\ UNCHANGED <<msgs, files>>
       ELSE IF MediaExpired(m, now)
       THEN \* fs.unlinkSync throws when the file is gone: the catch answers 500
            /\ MediaDone(s, IF r.file \in files THEN 404 ELSE 500, "expired")
            /\ files' = files \ {r.file}
            /\ UNCHANGED msgs
       ELSE IF IsViewOnce(m)
       THEN IF \E x \in msgs : x.id = m.id
            THEN /\ msgs' = UpdateMessage(m.id)
                 /\ media' = [media EXCEPT ![s].pc = "send", ![s].at = now]
                 /\ UNCHANGED files
            ELSE MediaDone(s, 500, "none") /\ UNCHANGED <<msgs, files>>
       ELSE SendRegular(s)

\* getMedia, lines 112-130: the access check, up to the group lookup it may need
getMediaAccess(s) ==
    /\ media[s].pc = "found"
    /\ LET r == media[s]
       IN IF r.found = {}
          THEN SendRegular(s)
          ELSE LET m == CHOOSE m \in r.found : TRUE
               IN IF m.senderId = r.actor \/ m.receiverId = r.actor
                  THEN MediaDecide(s, TRUE)
                  ELSE IF m.groupId # NULL
                  THEN /\ media' = [media EXCEPT ![s].pc = "grouped",
                                                 ![s].access = IsMember(m.groupId, r.actor)]
                       /\ UNCHANGED <<msgs, files>>
                  ELSE MediaDecide(s, FALSE)
    /\ UNCHANGED <<otps, codec, now, groupVars, reactions, greqs, rreqs, resp, histVars>>

\* getMedia after the group lookup has answered
getMediaGrouped(s) ==
    /\ media[s].pc = "grouped"
    /\ MediaDecide(s, media[s].access)
    /\ UNCHANGED <<otps, codec, now, groupVars, reactions, greqs, rreqs, resp, histVars>>

\* getMedia, line 162: res.sendFile of the view-once file, after the update
getMediaSend(s) ==
    /\ media[s].pc = "send"
    /\ media' = [media EXCEPT ![s].pc = "finish",
                              ![s].status = IF media[s].file \in files THEN 200 ELSE 404,
                              ![s].mode = "viewOnce"]
    /\ UNCHANGED <<otps, codec, now, msgs, files, groupVars, reactions, greqs, rreqs, resp, histVars>>

\* getMedia, lines 165-171: the 'finish' handler; its unlinkSync is in a try/catch
getMediaFinish(s) ==
    /\ media[s].pc = "finish"
    /\ media' = [media EXCEPT ![s].pc = "done",
                              ![s].unlink = IF media[s].file \in files THEN "ok" ELSE "ENOENT"]
    /\ files' = files \ {media[s].file}
    /\ UNCHANGED <<otps, codec, now, msgs, groupVars, reactions, greqs, rreqs, resp, histVars>>

\* the findMany without its expiresAt filter
SweepWhere_AnyMedia(m, t) == m.mediaUrl # NULL

\* cleanupExpiredMedia, lines 265-270: the messages its findMany selects
SweepWhere(m, t) == m.mediaUrl # NULL /\ m.expiresAt # NullTime /\ m.expiresAt < t

\* cleanupExpiredMedia, run to its end: every selected message has its file
\* unlinked (when present) and its mediaUrl and mediaType cleared
cleanupExpiredMedia ==
    /\ files' = files \ {m.mediaUrl : m \in {x \in msgs : SweepWhere(x, now)}}
    /\ msgs' = {IF SweepWhere(m, now) THEN ClearMedia(m) ELSE m : m \in msgs}
    /\ UNCHANGED <<otps, codec, now, groupVars, reactions, reqVars, resp, histVars>>

\* deleteMedia, lines 217-224: only the sender of the matched message may delete
DeleteMediaStatus(found, userId) ==
    IF found # {} /\ (CHOOSE m \in found : TRUE).senderId # userId THEN 403 ELSE 200

\* deleteMedia, lines 193-254: fs.existsSync, findFirst (no orderBy: any match),
\* the sender check, fs.unlinkSync and the update of the matched message
deleteMedia(userId, f) ==
    /\ IF f \notin files
       THEN /\ resp' = Reply("deleteMedia", userId, 404, {})
            /\ UNCHANGED <<msgs, files>>
       ELSE LET matches == {m \in msgs : Contains(m.mediaUrl, f)}
            IN \E found \in (IF matches = {} THEN {{}} ELSE {{m} : m \in matches}) :
                  LET status == DeleteMediaStatus(found, userId)
                  IN /\ resp' = Reply("deleteMedia", userId, status, found)
                     /\ files' = IF status = 200 THEN files \ {f} ELSE files
                     /\ msgs' = IF status = 200
                                THEN {IF m \in found THEN ClearMedia(m) ELSE m : m \in msgs}
                                ELSE msgs
    /\ UNCHANGED <<otps, codec, now, groupVars, reactions, reqVars, histVars>>

Tick ==
    /\ now < MaxTime
    /\ now' = now + 1
    /\ UNCHANGED <<otps, codec, msgs, files, groupVars, reactions, reqVars, resp, histVars>>

-----------------------------------------------------------------------------
(* group.controller.js *)

NoGroup == [adminId |-> NULL, memberIds |-> <<>>, allowAnonymous |-> FALSE, messageExpiry |-> 0]
NoInvite == [groupId |-> NULL, inviteCode |-> 0, expiresAt |-> NullTime]

\* the optional fields of a request body: {} is undefined, NULL no nickname
NoBody == [nickname |-> NULL, isVisible |-> {}, allowAnonymous |-> {}, messageExpiry |-> {}]

IdleGroupReq ==
    [op |-> "none", pc |-> "idle", actor |-> NULL, gid |-> NULL, target |-> NULL,
     invite |-> NoInvite, snap |-> NoGroup, late |-> FALSE,
     body |-> NoBody, existing |-> {}]

\* a request enters slot s
NewGroupReq(op, actor, gid, target) ==
    [IdleGroupReq EXCEPT !.op = op, !.actor = actor, !.gid = gid, !.target = target]

SlotFree(s) == greqs[s].pc = "idle"

\* prisma.group.findUnique({where: {id}}): the record as it is read
FindGroup(gid) == IF gid \in DOMAIN groups THEN groups[gid] ELSE NoGroup

\* createGroup, lines 417-424: clients learn the id of a group from the answer
\* of its createGroup
Issued(gid) ==
    /\ gid \in DOMAIN groups
    /\ \A s \in DOMAIN greqs : ~(greqs[s].op = "createGroup" /\ greqs[s].gid = gid)

\* getGroupDetails, lines 455-464: members select { id, username, phoneNumber, ... }
MemberOf(u) == [id |-> u, username |-> UserName(u), phoneNumber |-> PhoneNumber(u)]

\* getGroupDetails, lines 490-505: membersWithNicknames
MemberWithNickname(u, groupId) ==
    LET nick == {n \in nicknames : n.userId = u /\ n.groupId = groupId}
    IN IF nick # {}
       THEN LET n == CHOOSE n \in nick : TRUE
            IN [id |-> u, username |-> UserName(u), phoneNumber |-> PhoneNumber(u),
                nickname |-> n.nickname, isVisible |-> n.isVisible]
       ELSE MemberOf(u)

\* getGroupDetails, lines 507-520: member.isVisible !== false, with the admin
\* and the reader always kept
VisibleTo(member, userId, group) ==
    \/ userId = group.adminId
    \/ member.id = group.adminId
    \/ member.id = userId
    \/ ~("isVisible" \in DOMAIN member /\ member.isVisible = FALSE)

\* getGroupDetails, lines 474-488
DetailsStatus(userId, groupId) ==
    IF groupId \notin DOMAIN groups THEN 404
    ELSE IF ~Includes(groups[groupId].memberIds, userId) THEN 403
    ELSE 200

\* getGroupDetails, lines 440-553: the member list it answers with
getGroupDetails(userId, groupId) ==
    LET status == DetailsStatus(userId, groupId)
    IN /\ resp' = Reply("getGroupDetails", userId, status,
                        IF status = 200
                        THEN {member \in {MemberWithNickname(u, groupId) : u \in
                                              {x \in Users : Includes(groups[groupId].memberIds, x)}} :
                                 VisibleTo(member, userId, groups[groupId])}
                        ELSE {})
       /\ UNCHANGED <<otps, codec, now, msgs, files, groupVars, reactions, reqVars, histVars>>

\* the request r of slot s answers with `status` and leaves its slot
Answer(s, r, status) ==
    /\ greqs' = [greqs EXCEPT ![s] = IdleGroupReq]
    /\ resp' = Reply(r.op, r.actor, status,
                     {[groupId |-> r.gid, target |-> r.target, late |-> r.late]})

\* the request of slot s goes on as r
Continue(s, r) ==
    /\ greqs' = [greqs EXCEPT ![s] = r]
    /\ UNCHANGED resp

\* crypto.randomBytes(6).toString('hex'): a code no invite carries yet
FreshCode == Cardinality(invites) + 1

\* createGroup, lines 395-407: prisma.group.create, memberIds: [adminId]
createGroupCreate(s, adminId, allowAnonymous, messageExpiry) ==
    /\ SlotFree(s)
    /\ \E gid \in GroupIds \ DOMAIN groups :
          /\ gid = CHOOSE g \in GroupIds \ DOMAIN groups : TRUE
          /\ groups' = [g \in DOMAIN groups \cup {gid} |->
                          IF g = gid
                          THEN [adminId |-> adminId, memberIds |-> <<adminId>>,
                                allowAnonymous |-> allowAnonymous, messageExpiry |-> messageExpiry]
                          ELSE groups[g]]
          /\ Continue(s, [NewGroupReq("createGroup", adminId, gid, NULL) EXCEPT !.pc = "invite"])
          /\ lastTransfer' = [lastTransfer EXCEPT ![gid] = <<>>]
    /\ UNCHANGED <<otps, codec, now, msgs, files, invites, nicknames, reactions, media, rreqs, superseded>>

\* createGroup, lines 409-420: the group's first invite, 7 days from now
createGroupInvite(s) ==
    /\ greqs[s].op = "createGroup" /\ greqs[s].pc = "invite"
    /\ Cardinality(invites) < MaxInvites
    /\ invites' = invites \cup {[groupId |-> greqs[s].gid, inviteCode |-> FreshCode,
                                 expiresAt |-> now + InviteTTL]}
    /\ Answer(s, greqs[s], 201)
    /\ UNCHANGED <<otps, codec, now, msgs, files, groups, nicknames, reactions, media, rreqs, histVars>>

\* joinGroup, lines 626-632: findUnique of the invite, include: { group: true }
joinGroupFind(s, userId, inviteCode) ==
    /\ SlotFree(s)
    /\ LET found == {i \in invites : i.inviteCode = inviteCode}
           invite == IF found = {} THEN NoInvite ELSE CHOOSE i \in found : TRUE
       IN Continue(s, [NewGroupReq("joinGroup", userId, invite.groupId, userId)
                         EXCEPT !.pc = "found", !.invite = invite,
                                !.snap = FindGroup(invite.groupId),
                                !.late = inviteCode \in superseded])
    /\ UNCHANGED <<otps, codec, now, msgs, files, groupVars, reactions, media, rreqs, histVars>>

\* the expiry test of joinGroup left out
InviteExpired_Never(invite, t) == FALSE

\* groupInvite.expiresAt < new Date()
InviteExpired(invite, t) == invite.expiresAt < t

\* joinGroup, lines 634-649: the status its checks give
JoinStatus(r, t) ==
    IF r.invite = NoInvite \/ InviteExpired(r.invite, t) THEN 400
    ELSE IF Includes(r.snap.memberIds, r.actor) THEN 400
    ELSE 200

\* joinGroup with the push ahead of its checks
joinGroupPush_PushFirst(s) ==
    /\ greqs[s].op = "joinGroup" /\ greqs[s].pc = "found"
    /\ LET r == greqs[s]
       IN IF r.gid \notin DOMAIN groups
          THEN Answer(s, r, JoinStatus(r, now)) /\ UNCHANGED groups
          ELSE /\ Len(groups[r.gid].memberIds) < MaxMembers
               /\ groups' = [groups EXCEPT ![r.gid].memberIds = Append(@, r.actor)]
               /\ Answer(s, r, JoinStatus(r, now))
    /\ UNCHANGED <<otps, codec, now, msgs, files, invites, nicknames, reactions, media, rreqs, histVars>>

\* joinGroup, lines 634-659: the checks, then memberIds: { push: userId }
joinGroupPush(s) ==
    /\ greqs[s].op = "joinGroup" /\ greqs[s].pc = "found"
    /\ LET r == greqs[s]
           status == JoinStatus(r, now)
       IN IF status # 200
          THEN Answer(s, r, status) /\ UNCHANGED groups
          ELSE IF r.gid \notin DOMAIN groups
          THEN Answer(s, r, 500) /\ UNCHANGED groups
          ELSE /\ Len(groups[r.gid].memberIds) < MaxMembers
               /\ groups' = [groups EXCEPT ![r.gid].memberIds = Append(@, r.actor)]
               /\ Answer(s, r, 200)
    /\ UNCHANGED <<otps, codec, now, msgs, files, invites, nicknames, reactions, media, rreqs, histVars>>

LeaveStatus_AdminMayLeave(group, userId) ==
    IF group = NoGroup THEN 404
    ELSE IF ~Includes(group.memberIds, userId) THEN 400
    ELSE 200

\* leaveGroup, lines 692-713: the status its checks give on the group it read
LeaveStatus(group, userId) ==
    IF group = NoGroup THEN 404
    ELSE IF ~Includes(group.memberIds, userId) THEN 400
    ELSE IF group.adminId = userId THEN 400
    ELSE 200

\* the self-removal check of removeMember left out
RemoveStatus_SelfAllowed(group, userId, memberId) ==
    IF group = NoGroup THEN 404
    ELSE IF group.adminId # userId THEN 403
    ELSE IF ~Includes(group.memberIds, memberId) THEN 400
    ELSE 200

\* removeMember, lines 986-1015
RemoveStatus(group, userId, memberId) ==
    IF group = NoGroup THEN 404
    ELSE IF group.adminId # userId THEN 403
    ELSE IF memberId = group.adminId THEN 400
    ELSE IF ~Includes(group.memberIds, memberId) THEN 400
    ELSE 200

\* the membership check of transferOwnership left out
TransferStatus_AnyTarget(group, userId, newAdminId) ==
    IF group = NoGroup THEN 404
    ELSE IF group.adminId # userId THEN 403
    ELSE 200

\* transferOwnership, lines 1070-1091
TransferStatus(group, userId, newAdminId) ==
    IF group = NoGroup THEN 404
    ELSE IF group.adminId # userId THEN 403
    ELSE IF ~Includes(group.memberIds, newAdminId) THEN 400
    ELSE 200

\* generateGroupInvite, lines 920-933
GenerateStatus(group, userId) ==
    IF group = NoGroup THEN 404
    ELSE IF group.adminId # userId THEN 403
    ELSE 200

\* the findUnique of a handler and the checks it makes on the group read:
\* the request is answered at once, or goes on to its write with the snapshot
FindAndCheck(s, op, actor, gid, target, status, next) ==
    /\ SlotFree(s)
    /\ IF status # 200
       THEN Answer(s, NewGroupReq(op, actor, gid, target), status)
       ELSE Continue(s, [NewGroupReq(op, actor, gid, target)
                           EXCEPT !.pc = next, !.snap = FindGroup(gid)])
    /\ UNCHANGED <<otps, codec, now, msgs, files, groupVars, reactions, media, rreqs, histVars>>

leaveGroupFind(s, userId, groupId) ==
    FindAndCheck(s, "leaveGroup", userId, groupId, userId,
                 LeaveStatus(FindGroup(groupId), userId), "write")

removeMemberFind(s, userId, groupId, memberId) ==
    FindAndCheck(s, "removeMember", userId, groupId, memberId,
                 RemoveStatus(FindGroup(groupId), userId, memberId), "write")

\* leaveGroup, lines 715-723, and removeMember, lines 1017-1025:
\* memberIds: { set: group.memberIds.filter(id => id !== target) }, on the group read
memberIdsSet(s) ==
    /\ greqs[s].op \in {"leaveGroup", "removeMember"} /\ greqs[s].pc = "write"
    /\ LET r == greqs[s]
       IN IF r.gid \notin DOMAIN groups
          THEN Answer(s, r, 500) /\ UNCHANGED groups
          ELSE /\ groups' = [groups EXCEPT ![r.gid].memberIds = Without(r.snap.memberIds, r.target)]
               /\ Continue(s, [r EXCEPT !.pc = "nickname"])
    /\ UNCHANGED <<otps, codec, now, msgs, files, invites, nicknames, reactions, media, rreqs, histVars>>

\* leaveGroup, lines 725-736, and removeMember, lines 1027-1038:
\* memberNickname.deleteMany({userId: target, groupId})
nicknameDeleteMany(s) ==
    /\ greqs[s].op \in {"leaveGroup", "removeMember"} /\ greqs[s].pc = "nickname"
    /\ nicknames' = {n \in nicknames : ~(n.userId = greqs[s].target /\ n.groupId = greqs[s].gid)}
    /\ Answer(s, greqs[s], 200)
    /\ UNCHANGED <<otps, codec, now, msgs, files, groups, invites, reactions, media, rreqs, histVars>>

transferOwnershipFind(s, userId, groupId, newAdminId) ==
    FindAndCheck(s, "transferOwnership", userId, groupId, newAdminId,
                 TransferStatus(FindGroup(groupId), userId, newAdminId), "write")

\* the group record after update({data: {adminId: newAdminId}})
WithAdmin(group, newAdminId) == [group EXCEPT !.adminId = newAdminId]

\* transferOwnership, lines 1093-1104
transferOwnershipUpdate(s) ==
    /\ greqs[s].op = "transferOwnership" /\ greqs[s].pc = "write"
    /\ LET r == greqs[s]
       IN IF r.gid \notin DOMAIN groups
          THEN Answer(s, r, 500) /\ UNCHANGED <<groups, lastTransfer>>
          ELSE /\ groups' = [groups EXCEPT ![r.gid] = WithAdmin(@, r.target)]
               /\ Answer(s, r, 200)
               /\ lastTransfer' = [lastTransfer EXCEPT ![r.gid] = <<r.actor, r.target>>]
    /\ UNCHANGED <<otps, codec, now, msgs, files, invites, nicknames, reactions, media, rreqs, superseded>>

generateGroupInviteFind(s, userId, groupId) ==
    FindAndCheck(s, "generateGroupInvite", userId, groupId, NULL,
                 GenerateStatus(FindGroup(groupId), userId), "expire")

\* generateGroupInvite, lines 935-939: updateMany({groupId}, {expiresAt: new Date()})
generateGroupInviteExpire(s) ==
    /\ greqs[s].op = "generateGroupInvite" /\ greqs[s].pc = "expire"
    /\ invites' = {IF i.groupId = greqs[s].gid THEN [i EXCEPT !.expiresAt = now] ELSE i : i \in invites}
    /\ Continue(s, [greqs[s] EXCEPT !.pc = "create"])
    /\ UNCHANGED <<otps, codec, now, msgs, files, groups, nicknames, reactions, media, rreqs, histVars>>

\* generateGroupInvite, lines 941-962: the new invite, 7 days from now
generateGroupInviteCreate(s) ==
    /\ greqs[s].op = "generateGroupInvite" /\ greqs[s].pc = "create"
    /\ Cardinality(invites) < MaxInvites
    /\ invites' = invites \cup {[groupId |-> greqs[s].gid, inviteCode |-> FreshCode,
                                 expiresAt |-> now + InviteTTL]}
    /\ Answer(s, greqs[s], 200)
    /\ superseded' = superseded \cup {i.inviteCode : i \in {x \in invites : x.groupId = greqs[s].gid}}
    /\ UNCHANGED <<otps, codec, now, msgs, files, groups, nicknames, reactions, media, rreqs, lastTransfer>>

\* updateGroup, lines 765-779, without the admin check
UpdateGroupStatus_AnyUser(group, userId) ==
    IF group = NoGroup THEN 404 ELSE 200

\* updateGroup, lines 765-779
UpdateGroupStatus(group, userId) ==
    IF group = NoGroup THEN 404
    ELSE IF group.adminId # userId THEN 403
    ELSE 200

updateGroupFind(s, userId, groupId, allowAnonymous, messageExpiry) ==
    /\ SlotFree(s)
    /\ LET status == UpdateGroupStatus(FindGroup(groupId), userId)
           r == [NewGroupReq("updateGroup", userId, groupId, NULL)
                   EXCEPT !.body = [NoBody EXCEPT !.allowAnonymous = allowAnonymous,
                                                  !.messageExpiry = messageExpiry]]
       IN IF status # 200
          THEN Answer(s, r, status)
          ELSE Continue(s, [r EXCEPT !.pc = "write", !.snap = FindGroup(groupId)])
    /\ UNCHANGED <<otps, codec, now, msgs, files, groupVars, reactions, media, rreqs, histVars>>

\* value !== undefined ? value : undefined, in the data of an update
Provided(field, stored) == IF field = {} THEN stored ELSE CHOOSE v \in field : TRUE

\* updateGroup, lines 782-792: the settings the body provides are written
updateGroupUpdate(s) ==
    /\ greqs[s].op = "updateGroup" /\ greqs[s].pc = "write"
    /\ LET r == greqs[s]
       IN IF r.gid \notin DOMAIN groups
          THEN Answer(s, r, 500) /\ UNCHANGED groups
          ELSE /\ groups' = [groups EXCEPT
                               ![r.gid].allowAnonymous = Provided(r.body.allowAnonymous, @),
                               ![r.gid].messageExpiry = Provided(r.body.messageExpiry, @)]
               /\ Answer(s, r, 200)
    /\ UNCHANGED <<otps, codec, now, msgs, files, invites, nicknames, reactions, media, rreqs, histVars>>

\* setMemberNickname, lines 826-859
NicknameStatus(group, currentUserId, targetUserId, isVisible) ==
    IF group = NoGroup THEN 404
    ELSE IF ~Includes(group.memberIds, currentUserId) \/ ~Includes(group.memberIds, targetUserId)
    THEN 403
    ELSE IF targetUserId # currentUserId /\ group.adminId # currentUserId THEN 403
    ELSE IF isVisible # {} /\ group.adminId # currentUserId THEN 403
    ELSE 200

setMemberNicknameFind(s, currentUserId, groupId, targetUserId, nickname, isVisible) ==
    /\ SlotFree(s)
    /\ LET status == NicknameStatus(FindGroup(groupId), currentUserId, targetUserId, isVisible)
           r == [NewGroupReq("setMemberNickname", currentUserId, groupId, targetUserId)
                   EXCEPT !.body = [NoBody EXCEPT !.nickname = nickname, !.isVisible = isVisible]]
       IN IF status # 200
          THEN Answer(s, r, status)
          ELSE Continue(s, [r EXCEPT !.pc = "lookup", !.snap = FindGroup(groupId)])
    /\ UNCHANGED <<otps, codec, now, msgs, files, groupVars, reactions, media, rreqs, histVars>>

\* the nickname records of one (user, group) pair; @@unique([userId, groupId])
\* keeps them to one at most
NicknameOf(userId, groupId) == {n \in nicknames : n.userId = userId /\ n.groupId = groupId}

\* setMemberNickname, lines 862-869: memberNickname.findUnique
setMemberNicknameLookup(s) ==
    /\ greqs[s].op = "setMemberNickname" /\ greqs[s].pc = "lookup"
    /\ Continue(s, [greqs[s] EXCEPT !.pc = "write",
                                    !.existing = NicknameOf(greqs[s].target, greqs[s].gid)])
    /\ UNCHANGED <<otps, codec, now, msgs, files, groupVars, reactions, media, rreqs, histVars>>

\* setMemberNickname, lines 875-881: nickname || undefined, and isVisible when given
UpdatedNickname(n, body) ==
    [n EXCEPT !.nickname = IF body.nickname = NULL THEN @ ELSE body.nickname,
              !.isVisible = Provided(body.isVisible, @)]

\* setMemberNickname, lines 884-891: isVisible defaults to true
CreatedNickname(userId, groupId, body) ==
    [userId |-> userId, groupId |-> groupId, nickname |-> body.nickname,
     isVisible |-> Provided(body.isVisible, TRUE)]

\* setMemberNickname, lines 871-893: update of the record that was found, or create.
\* The update throws when the record is gone, the create when the pair has a
\* record by now or the required nickname is missing; the catch answers 500.
\* The record found is identified by its pair: no second setMemberNickname for the
\* pair is in flight to replace it.
setMemberNicknameWrite(s) ==
    /\ greqs[s].op = "setMemberNickname" /\ greqs[s].pc = "write"
    /\ LET r == greqs[s]
           stored == NicknameOf(r.target, r.gid)
       IN IF r.existing # {}
          THEN IF stored = {}
               THEN Answer(s, r, 500) /\ UNCHANGED nicknames
               ELSE /\ nicknames' = {IF n \in stored THEN UpdatedNickname(n, r.body) ELSE n :
                                        n \in nicknames}
                    /\ Answer(s, r, 200)
          ELSE IF stored # {} \/ r.body.nickname = NULL
               THEN Answer(s, r, 500) /\ UNCHANGED nicknames
               ELSE /\ nicknames' = nicknames \cup {CreatedNickname(r.target, r.gid, r.body)}
                    /\ Answer(s, r, 200)
    /\ UNCHANGED <<otps, codec, now, msgs, files, groups, invites, reactions, media, rreqs, histVars>>

\* the admin check of deleteGroup left out
DeleteGroupStatus_AnyUser(group, userId) ==
    IF group = NoGroup THEN 404 ELSE 200

\* deleteGroup, lines 1128-1141
DeleteGroupStatus(group, userId) ==
    IF group = NoGroup THEN 404
    ELSE IF group.adminId # userId THEN 403
    ELSE 200

deleteGroupFind(s, userId, groupId) ==
    FindAndCheck(s, "deleteGroup", userId, groupId, NULL,
                 DeleteGroupStatus(FindGroup(groupId), userId), "delete")

\* schema.prisma: Message.group, GroupInvite.group and MemberNickname.group are
\* onDelete: Cascade, and so is Reaction.message
CascadeKeeps(row, groupId) == row.groupId # groupId

\* deleteGroup, lines 1143-1151: prisma.group.delete with its cascade
deleteGroupDelete(s) ==
    /\ greqs[s].op = "deleteGroup" /\ greqs[s].pc = "delete"
    /\ LET r == greqs[s]
       IN IF r.gid \notin DOMAIN groups
          THEN Answer(s, r, 500) /\ UNCHANGED <<msgs, groups, invites, nicknames, reactions>>
          ELSE /\ groups' = [g \in DOMAIN groups \ {r.gid} |-> groups[g]]
               /\ invites' = {i \in invites : CascadeKeeps(i, r.gid)}
               /\ nicknames' = {n \in nicknames : CascadeKeeps(n, r.gid)}
               /\ msgs' = {m \in msgs : CascadeKeeps(m, r.gid)}
               /\ reactions' = {x \in reactions :
                                   \E m \in msgs : m.id = x.messageId /\ CascadeKeeps(m, r.gid)}
               /\ Answer(s, r, 200)
    /\ UNCHANGED <<otps, codec, now, files, media, rreqs, histVars>>

-----------------------------------------------------------------------------
(* message.controller.js: markMessageRead *)

\* markMessageRead, lines 290-322: the status its checks give on the message read
MarkReadStatus(found, userId) ==
    IF found = {} THEN 404
    ELSE IF \E m \in found :
               ~(\/ m.receiverId = userId
                 \/ m.groupId # NULL /\ IsMember(m.groupId, userId))
    THEN 403
    ELSE 200

\* markMessageRead, lines 285-345
markMessageRead(userId, messageId) ==
    LET found == {m \in msgs : m.id = messageId}
        status == MarkReadStatus(found, userId)
    IN /\ msgs' = IF status = 200 THEN UpdateMessage(messageId) ELSE msgs
       /\ resp' = Reply("markMessageRead", userId, status, {[messageId |-> messageId]})
       /\ UNCHANGED <<otps, codec, now, files, groupVars, reactions, reqVars, histVars>>

-----------------------------------------------------------------------------
(* message.controller.js: reactions *)

IdleReactReq ==
    [op |-> "none", pc |-> "idle", actor |-> NULL, messageId |-> 0, emoji |-> NULL,
     found |-> {}, existing |-> {}]

ReactAnswer(s, r, status) ==
    /\ rreqs' = [rreqs EXCEPT ![s] = IdleReactReq]
    /\ resp' = Reply(r.op, r.actor, status, {[messageId |-> r.messageId, emoji |-> r.emoji]})

ReactContinue(s, r) ==
    /\ rreqs' = [rreqs EXCEPT ![s] = r]
    /\ UNCHANGED resp

\* @default(auto()) ObjectId: an id that no stored reaction and no request in
\* flight holds
ReactionIds == 1..(Cardinality(reactions) + Len(rreqs) + 1)

FreshReactionId ==
    CHOOSE i \in ReactionIds :
        /\ \A r \in reactions : r.id # i
        /\ \A s \in DOMAIN rreqs : \A r \in rreqs[s].existing : r.id # i
        /\ \A j \in 1..(i - 1) :
              \/ \E r \in reactions : r.id = j
              \/ \E s \in DOMAIN rreqs : \E r \in rreqs[s].existing : r.id = j

\* schema.prisma, Reaction: @@unique([messageId, userId])
UniqueViolation(messageId, userId) ==
    \E r \in reactions : r.messageId = messageId /\ r.userId = userId

\* addReaction, lines 412-424: findUnique of the message, include: { reactions: true }
addReactionFind(s, userId, messageId, emoji) ==
    /\ rreqs[s].pc = "idle"
    /\ LET r == [IdleReactReq EXCEPT !.op = "addReaction", !.actor = userId,
                                      !.messageId = messageId, !.emoji = emoji]
           found == {m \in msgs : m.id = messageId}
       IN IF found = {}
          THEN ReactAnswer(s, r, 404)
          ELSE ReactContinue(s, [r EXCEPT !.pc = "found", !.found = found,
                                          !.existing = {x \in reactions : x.messageId = messageId}])
    /\ UNCHANGED <<otps, codec, now, msgs, files, groupVars, reactions, media, greqs, histVars>>

\* addReaction, lines 427-440
CanReact(m, userId) ==
    \/ m.receiverId = userId
    \/ m.senderId = userId
    \/ m.groupId # NULL /\ IsMember(m.groupId, userId)

\* addReaction, lines 427-472: the permission check, then the update of the
\* reaction found in the message read, or the create of a new one
addReactionWrite(s) ==
    /\ rreqs[s].op = "addReaction" /\ rreqs[s].pc = "found"
    /\ LET r == rreqs[s]
           existingReaction == {x \in r.existing : x.userId = r.actor}
       IN IF \E m \in r.found : ~CanReact(m, r.actor)
          THEN ReactAnswer(s, r, 403) /\ UNCHANGED reactions
          ELSE IF existingReaction # {}
          THEN IF \E x \in existingReaction : \E y \in reactions : y.id = x.id
               THEN /\ reactions' = {IF \E x \in existingReaction : x.id = y.id
                                      THEN [y EXCEPT !.emoji = r.emoji] ELSE y : y \in reactions}
                    /\ ReactAnswer(s, r, 200)
               ELSE ReactAnswer(s, r, 500) /\ UNCHANGED reactions
          ELSE IF UniqueViolation(r.messageId, r.actor)
          THEN ReactAnswer(s, r, 500) /\ UNCHANGED reactions
          ELSE /\ reactions' = reactions \cup {[id |-> FreshReactionId, messageId |-> r.messageId,
                                                 userId |-> r.actor, emoji |-> r.emoji]}
               /\ ReactAnswer(s, r, 200)
    /\ UNCHANGED <<otps, codec, now, msgs, files, groupVars, media, greqs, histVars>>

\* removeReaction, lines 492-504: findFirst({messageId, userId})
removeReactionFind(s, userId, messageId) ==
    /\ rreqs[s].pc = "idle"
    /\ LET r == [IdleReactReq EXCEPT !.op = "removeReaction", !.actor = userId,
                                      !.messageId = messageId]
           matches == {x \in reactions : x.messageId = messageId /\ x.userId = userId}
       IN IF matches = {}
          THEN ReactAnswer(s, r, 404)
          ELSE \E reaction \in matches :
                  ReactContinue(s, [r EXCEPT !.pc = "found", !.existing = {reaction}])
    /\ UNCHANGED <<otps, codec, now, msgs, files, groupVars, reactions, media, greqs, histVars>>

\* removeReaction, lines 506-514: delete({where: {id}}), which throws when the
\* record is gone
removeReactionDelete(s) ==
    /\ rreqs[s].op = "removeReaction" /\ rreqs[s].pc = "found"
    /\ LET r == rreqs[s]
       IN IF \E x \in r.existing : \E y \in reactions : y.id = x.id
          THEN /\ reactions' = {y \in reactions : \A x \in r.existing : x.id # y.id}
               /\ ReactAnswer(s, r, 200)
          ELSE ReactAnswer(s, r, 500) /\ UNCHANGED reactions
    /\ UNCHANGED <<otps, codec, now, msgs, files, groupVars, media, greqs, histVars>>

-----------------------------------------------------------------------------
(* otp.util.js and auth.controller.js: the one-time codes *)

\* OTP_EXPIRY of the environment, in seconds
OtpExpiry == 1

\* generateOTP: the codes in use
Otps == {"111111", "222222"}

\* saveOTP, lines 262-284: the user's record is updated or created
saveOTP(userId, otp) ==
    /\ otps' = {o \in otps : o.userId # userId}
                  \cup {[userId |-> userId, otp |-> otp, expiresAt |-> now + OtpExpiry]}
    /\ UNCHANGED <<codec, now, msgs, files, groupVars, reactions, reqVars, resp, histVars>>

\* verifyOTP, lines 315-335: the value it returns
verifyOTP(userId, providedOtp) ==
    \E o \in otps : o.userId = userId /\ o.otp = providedOtp

\* verifyPhone, lines 75-131; verifyOTP deletes the record it accepted
verifyPhone(userId, otp) ==
    LET isValid == verifyOTP(userId, otp)
        status == IF ~isValid THEN 400 ELSE IF userId \notin Users THEN 404 ELSE 200
    IN /\ otps' = IF isValid THEN {o \in otps : o.userId # userId} ELSE otps
       /\ resp' = Reply("verifyPhone", userId, status,
                        IF status = 200 THEN {[token |-> userId]} ELSE {})
       /\ UNCHANGED <<codec, now, msgs, files, groupVars, reactions, reqVars, histVars>>

-----------------------------------------------------------------------------
(* encryption.util.js: the envelope codec.                                    *)
(* Bytes are kept 4 bits wide and base64 digits 3 bits wide, so that, as in   *)
(* base64, three bytes fill four digits and one or two bytes leave pad bits   *)
(* and '=' characters.  Strings are sequences of code points; code points     *)
(* below 8 take one byte in UTF-8 and the others two.                         *)

PadChar == 8            \* '='
Replacement == 16       \* U+FFFD, what the decoder yields for malformed bytes

ByteBits(b) == <<(b \div 8) % 2, (b \div 4) % 2, (b \div 2) % 2, b % 2>>
DigitBits(d) == <<(d \div 4) % 2, (d \div 2) % 2, d % 2>>

RECURSIVE BitsOfBytes(_)
BitsOfBytes(bytes) ==
    IF bytes = <<>> THEN <<>> ELSE ByteBits(Head(bytes)) \o BitsOfBytes(Tail(bytes))

\* groups of three bits, the last one filled with zero bits
RECURSIVE Digits(_)
Digits(bits) ==
    IF bits = <<>> THEN <<>>
    ELSE LET g == SubSeq(bits \o <<0, 0>>, 1, 3)
         IN <<4 * g[1] + 2 * g[2] + g[3]>> \o Digits(SubSeq(bits, 4, Len(bits)))

\* buffer.toString('base64')
ToBase64(bytes) ==
    LET ds == Digits(BitsOfBytes(bytes))
    IN ds \o [i \in 1..((4 - (Len(ds) % 4)) % 4) |-> PadChar]

RECURSIVE UntilPad(_)
UntilPad(str) ==
    IF str = <<>> \/ Head(str) = PadChar THEN <<>> ELSE <<Head(str)>> \o UntilPad(Tail(str))

RECURSIVE BitsOfDigits(_)
BitsOfDigits(ds) ==
    IF ds = <<>> THEN <<>> ELSE DigitBits(Head(ds)) \o BitsOfDigits(Tail(ds))

\* whole bytes only: the bits left over are dropped, whatever they are
RECURSIVE BytesOfBits(_)
BytesOfBits(bits) ==
    IF Len(bits) < 4 THEN <<>>
    ELSE <<8 * bits[1] + 4 * bits[2] + 2 * bits[3] + bits[4]>>
         \o BytesOfBits(SubSeq(bits, 5, Len(bits)))

\* Buffer.from(string, 'base64'): decodes up to the first '='
FromBase64(str) == BytesOfBits(BitsOfDigits(UntilPad(str)))

\* input encoding 'utf8' of cipher.update
RECURSIVE Utf8Encode(_)
Utf8Encode(str) ==
    IF str = <<>> THEN <<>>
    ELSE LET c == Head(str)
         IN (IF c < 8 THEN <<c>> ELSE <<12 + (c \div 4), 8 + (c % 4)>>) \o Utf8Encode(Tail(str))

\* output encoding 'binary' in the place of 'utf8': one character per byte
RECURSIVE Utf8Decode_Latin1(_)
Utf8Decode_Latin1(bytes) ==
    IF bytes = <<>> THEN <<>> ELSE <<Head(bytes)>> \o Utf8Decode_Latin1(Tail(bytes))

\* output encoding 'utf8' of decipher.update and decipher.final
RECURSIVE Utf8Decode(_)
Utf8Decode(bytes) ==
    IF bytes = <<>> THEN <<>>
    ELSE LET b == Head(bytes)
         IN IF b < 8 THEN <<b>> \o Utf8Decode(Tail(bytes))
            ELSE IF b >= 14 /\ Len(bytes) >= 2 /\ bytes[2] \in 8..11
            THEN <<4 * (b - 12) + (bytes[2] - 8)>> \o Utf8Decode(SubSeq(bytes, 3, Len(bytes)))
            ELSE <<Replacement>> \o Utf8Decode(Tail(bytes))

\* what a call returns or throws
Returned(value) == [ok |-> TRUE, value |-> value, error |-> NULL]
Thrown(error) == [ok |-> FALSE, value |-> <<>>, error |-> error]
NoResult == [ok |-> FALSE, value |-> <<>>, error |-> "not called"]

\* aes-256-gcm: the counter-mode keystream of a key and a nonce
Keystream(aesKey, iv, i) == (7 * aesKey + 3 * iv[1] + 5 * i) % 16

\* cipher.update: GCM returns one ciphertext byte for every plaintext byte
CipherUpdate(bytes, aesKey, iv) ==
    [i \in 1..Len(bytes) |-> (bytes[i] + Keystream(aesKey, iv, i)) % 16]

\* decipher.update
DecipherUpdate(bytes, aesKey, iv) ==
    [i \in 1..Len(bytes) |-> (bytes[i] + 16 - Keystream(aesKey, iv, i)) % 16]

\* cipher.getAuthTag(): the tag is kept symbolic, as what it authenticates and
\* how many of its bytes are presented; its base64 form is not modelled
TagLength == 16
GcmTag(aesKey, iv, data) == [key |-> aesKey, iv |-> iv, data |-> data, len |-> TagLength]
NoTag == [key |-> 0, iv |-> <<>>, data |-> <<>>, len |-> 0]

\* decipher.setAuthTag without the authTagLength option: every tag length that
\* GCM allows is accepted
ValidTagLengths == {4, 8, 12, 13, 14, 15, 16}

\* decipher.final: the presented bytes of the tag are compared with the tag of
\* the key, the nonce and the data
TagVerifies(authTag, aesKey, iv, data) ==
    authTag.key = aesKey /\ authTag.iv = iv /\ authTag.data = data

NoEnvelope == [iv |-> <<>>, authTag |-> NoTag, encryptedData |-> <<>>]

\* encryptMessage, lines 420-437, iv being the crypto.randomBytes(16) of line
\* 421.  JSON.stringify and the outer base64 of lines 430-436 are undone by
\* line 446; the envelope is kept as the object between them.
encryptMessage(message, aesKey, iv) ==
    LET data == CipherUpdate(Utf8Encode(message), aesKey, iv)
        encrypted == ToBase64(data) \o ToBase64(<<>>)       \* update, then final
    IN [iv |-> ToBase64(iv), authTag |-> GcmTag(aesKey, iv, data), encryptedData |-> encrypted]

\* decryptMessage, lines 445-459
decryptMessage(encryptedObj, aesKey) ==
    LET iv == FromBase64(encryptedObj.iv)
        authTag == encryptedObj.authTag
        data == FromBase64(encryptedObj.encryptedData)
    IN IF iv = <<>>
       THEN Thrown("Invalid initialization vector")
       ELSE IF authTag.len \notin ValidTagLengths
       THEN Thrown("Invalid authentication tag length")
       ELSE IF ~TagVerifies(authTag, aesKey, iv, data)
       THEN Thrown("Unsupported state or unable to authenticate data")
       ELSE Returned(Utf8Decode(DecipherUpdate(data, aesKey, iv)))

\* crypto.randomBytes(16): the nonces a call can draw
Nonces == {<<3>>, <<12>>}

\* a caller seals a message: encryptMessage with the nonce it draws
callEncryptMessage ==
    /\ codec.pc = "start"
    /\ \E iv \in Nonces :
          codec' = [codec EXCEPT !.pc = "sealed",
                                 !.envelope = encryptMessage(codec.message, codec.aesKey, iv)]
    /\ UNCHANGED <<otps, now, msgs, files, groupVars, reactions, reqVars, resp, histVars>>

\* the envelope is altered on its way: another nonce, a tag cut to a shorter
\* length that GCM allows or with other bytes, or another base64 digit in the
\* ciphertext
alterEnvelope ==
    /\ codec.pc = "sealed"
    /\ LET e == codec.envelope
       IN \/ \E iv \in Nonces :
                /\ ToBase64(iv) # e.iv
                /\ codec' = [codec EXCEPT !.pc = "altered", !.altered = "nonce",
                                          !.envelope = [e EXCEPT !.iv = ToBase64(iv)]]
          \/ \E len \in ValidTagLengths \ {TagLength} :
                codec' = [codec EXCEPT !.pc = "altered", !.altered = "authTag",
                                       !.envelope = [e EXCEPT !.authTag.len = len]]
          \/ codec' = [codec EXCEPT !.pc = "altered", !.altered = "authTag",
                                    !.envelope = [e EXCEPT !.authTag.key = 0]]
          \/ \E i \in 1..Len(e.encryptedData), d \in 0..7 :
                /\ e.encryptedData[i] # d
                /\ codec' = [codec EXCEPT !.pc = "altered", !.altered = "ciphertext",
                                          !.envelope = [e EXCEPT !.encryptedData[i] = d]]
    /\ UNCHANGED <<otps, now, msgs, files, groupVars, reactions, reqVars, resp, histVars>>

\* a caller opens the envelope with the key it holds
callDecryptMessage(aesKey) ==
    /\ codec.pc \in {"sealed", "altered"}
    /\ codec' = [codec EXCEPT !.pc = "opened", !.opener = aesKey,
                              !.result = decryptMessage(codec.envelope, aesKey)]
    /\ UNCHANGED <<otps, now, msgs, files, groupVars, reactions, reqVars, resp, histVars>>

MaxKeyPairs == 3
KeyPairs == 1..MaxKeyPairs      \* generateKeyPair: pair i is (public key i, private key i)

\* generateKeyPair, lines 350-364: modulusLength 2048, so a ciphertext is as
\* long as the modulus, 256 bytes
ModulusBytes == 256

OaepDecodingError == "oaep decoding error"

\* crypto.publicEncrypt with RSA_PKCS1_OAEP_PADDING, kept symbolic: the key
\* pair whose public key encrypted, the key inside, the length, whether the
\* bytes are still the ones encrypted, and the key pairs whose modulus the
\* ciphertext, read as a number, is not below (never the encrypting one)
publicEncrypt(aesKey, pair, above) ==
    [pair |-> pair, payload |-> aesKey, len |-> ModulusBytes, intact |-> TRUE, above |-> above]

NoBlob == [pair |-> 0, payload |-> 0, len |-> 0, intact |-> FALSE, above |-> {}]

\* crypto.privateDecrypt with RSA_PKCS1_OAEP_PADDING: the length and the range
\* of the ciphertext are checked before the padding
privateDecrypt(buffer, pair) ==
    IF buffer.len > ModulusBytes
    THEN Thrown("data greater than mod len")
    ELSE IF pair \in buffer.above
    THEN Thrown("data too large for modulus")
    ELSE IF ~buffer.intact \/ buffer.pair # pair
    THEN Thrown(OaepDecodingError)
    ELSE Returned(buffer.payload)

\* encryptKey, lines 380-391; the base64 string of line 390 is kept as the
\* ciphertext it encodes
encryptKey(aesKey, pair, above) == publicEncrypt(aesKey, pair, above)

\* decryptKey, lines 399-412: the library's exception propagates as thrown
decryptKey(encryptedKey, pair) == privateDecrypt(encryptedKey, pair)

\* a sender wraps the key for the recipient's public key
callEncryptKey ==
    /\ codec.pc = "start"
    /\ \E above \in SUBSET (KeyPairs \ {codec.pair}) :
          codec' = [codec EXCEPT !.pc = "wrapped",
                                 !.blob = encryptKey(codec.aesKey, codec.pair, above)]
    /\ UNCHANGED <<otps, now, msgs, files, groupVars, reactions, reqVars, resp, histVars>>

\* the blob is corrupted on its way: a byte changed, or a byte appended
corruptBlob ==
    /\ codec.pc = "wrapped"
    /\ \/ codec' = [codec EXCEPT !.pc = "corrupted", !.altered = "changed", !.blob.intact = FALSE]
       \/ codec' = [codec EXCEPT !.pc = "corrupted", !.altered = "appended", !.blob.intact = FALSE,
                                 !.blob.len = codec.blob.len + 1]
    /\ UNCHANGED <<otps, now, msgs, files, groupVars, reactions, reqVars, resp, histVars>>

\* a recipient unwraps the blob with the private key it holds
callDecryptKey(pair) ==
    /\ codec.pc \in {"wrapped", "corrupted"}
    /\ codec' = [codec EXCEPT !.pc = "unwrapped", !.opener = pair,
                              !.result = decryptKey(codec.blob, pair)]
    /\ UNCHANGED <<otps, now, msgs, files, groupVars, reactions, reqVars, resp, histVars>>

-----------------------------------------------------------------------------
(* Messaging over two standing groups: g1 = {u1 (admin), u2} allows anonymous *)
(* messages and has no default expiry, g2 = {u2 (admin)} does neither.       *)
(* u2 carries a hidden nickname in g1.  u3 belongs to no group.              *)

MsgSlots == {1}
MsgTargets == {<<"u2", NULL>>, <<NULL, "g1">>, <<NULL, "g2">>, <<"u2", "g1">>, <<NULL, NULL>>}
MsgExpiries == {NullTime, 1}

StoreWith(g1Members) ==
    /\ now = 0
    /\ otps = {}
    /\ codec = NoCodec
    /\ msgs = {}
    /\ files = Files
    /\ groups = [g \in GroupIds |->
                   IF g = "g1"
                   THEN [adminId |-> "u1", memberIds |-> g1Members,
                         allowAnonymous |-> TRUE, messageExpiry |-> 0]
                   ELSE [adminId |-> "u2", memberIds |-> <<"u2">>,
                         allowAnonymous |-> FALSE, messageExpiry |-> 1]]
    /\ invites = {[groupId |-> "g1", inviteCode |-> 1, expiresAt |-> InviteTTL],
                  [groupId |-> "g2", inviteCode |-> 2, expiresAt |-> InviteTTL]}
    /\ nicknames = {[userId |-> "u2", groupId |-> "g1", nickname |-> "nick2", isVisible |-> FALSE]}
    /\ reactions = {}
    /\ resp = NoResp
    /\ lastTransfer = [g \in GroupIds |-> <<>>]
    /\ superseded = {}

InitStore == StoreWith(<<"u1", "u2">>)

InitMsg ==
    /\ InitStore
    /\ media = [s \in MsgSlots |-> IdleMedia]
    /\ greqs = <<>>
    /\ rreqs = <<>>

NextMsg ==
    \/ \E senderId \in Users, target \in MsgTargets, isAnonymous \in BOOLEAN, expiresAt \in MsgExpiries :
          sendMessage(senderId, target[1], target[2], NULL, isAnonymous, expiresAt)
    \/ \E cur \in Users, other \in Users : getMessagesByUser(cur, other)
    \/ \E cur \in Users, groupId \in GroupIds : getGroupMessages(cur, groupId)
    \/ Tick

SpecMsg == InitMsg /\ [][NextMsg]_vars

-----------------------------------------------------------------------------
(* Expiry: u1 sends messages with an attachment to u2 and to g1, with and    *)
(* without a deadline; u2 reads through the three read paths while the clock *)
(* advances and the sweep runs.                                              *)

ExpirySlots == {1}
ExpiryTargets == {<<"u2", NULL>>, <<NULL, "g1">>}

NextExpiry ==
    \/ \E target \in ExpiryTargets, expiresAt \in MsgExpiries :
          sendMessage("u1", target[1], target[2], "f1", FALSE, expiresAt)
    \/ getMessagesByUser("u2", "u1")
    \/ getGroupMessages("u2", "g1")
    \/ \E s \in ExpirySlots : getMediaLookup(s, "u2", "f1")
    \/ \E s \in ExpirySlots : getMediaAccess(s)
    \/ \E s \in ExpirySlots : getMediaGrouped(s)
    \/ \E s \in ExpirySlots : getMediaSend(s)
    \/ \E s \in ExpirySlots : getMediaFinish(s)
    \/ cleanupExpiredMedia
    \/ Tick

SpecExpiry == InitMsg /\ [][NextExpiry]_vars

-----------------------------------------------------------------------------
(* View-once media: u1 sends attachments to u2 and to g1; MaxReaders requests *)
(* of u2 for the file are in flight together, each slot serving one request. *)

MediaSlots == 1..MaxReaders

InitMedia ==
    /\ InitStore
    /\ media = [s \in MediaSlots |-> IdleMedia]
    /\ greqs = <<>>
    /\ rreqs = <<>>

NextMedia ==
    \/ \E target \in ExpiryTargets, expiresAt \in MsgExpiries :
          sendMessage("u1", target[1], target[2], "f1", FALSE, expiresAt)
    \/ \E s \in MediaSlots : media[s].pc = "idle" /\ getMediaLookup(s, "u2", "f1")
    \/ \E s \in MediaSlots : getMediaAccess(s)
    \/ \E s \in MediaSlots : getMediaGrouped(s)
    \/ \E s \in MediaSlots : getMediaSend(s)
    \/ \E s \in MediaSlots : getMediaFinish(s)
    \/ Tick

SpecMedia == InitMedia /\ [][NextMedia]_vars

-----------------------------------------------------------------------------
(* The ledger of one group, from an empty store: u1 creates the group, and    *)
(* MaxGroupReqs requests are in flight together.                              *)

GroupSlots == 1..MaxGroupReqs
InviteCodes == 1..MaxInvites

InitLedger(slots) ==
    /\ now = 0
    /\ otps = {}
    /\ codec = NoCodec
    /\ msgs = {}
    /\ files = {}
    /\ groups = <<>>
    /\ invites = {}
    /\ nicknames = {}
    /\ reactions = {}
    /\ media = <<>>
    /\ greqs = [s \in slots |-> IdleGroupReq]
    /\ rreqs = <<>>
    /\ resp = NoResp
    /\ lastTransfer = [g \in GroupIds |-> <<>>]
    /\ superseded = {}

InitGroup == InitLedger(GroupSlots)

\* Membership and ownership with requests in flight together: u2 joins with the
\* group's code, u1 and u2 leave, remove each other and hand the ownership over.
Owners == {"u1", "u2"}

NextMembers ==
    \/ \E s \in GroupSlots : DOMAIN groups = {} /\ createGroupCreate(s, "u1", FALSE, 0)
    \/ \E s \in GroupSlots : createGroupInvite(s)
    \/ \E s \in GroupSlots : joinGroupFind(s, "u2", 1)
    \/ \E s \in GroupSlots : joinGroupPush(s)
    \/ \E s \in GroupSlots, userId \in Owners : Issued("g1") /\ leaveGroupFind(s, userId, "g1")
    \/ \E s \in GroupSlots, userId \in Owners, memberId \in Owners :
          Issued("g1") /\ removeMemberFind(s, userId, "g1", memberId)
    \/ \E s \in GroupSlots : memberIdsSet(s)
    \/ \E s \in GroupSlots : nicknameDeleteMany(s)
    \/ \E s \in GroupSlots, userId \in Owners, newAdminId \in Owners :
          Issued("g1") /\ transferOwnershipFind(s, userId, "g1", newAdminId)
    \/ \E s \in GroupSlots : transferOwnershipUpdate(s)

SpecMembers == InitGroup /\ [][NextMembers]_vars

\* The same handlers one request at a time, for every user.
OwnerSlots == {1}

InitOwner == InitLedger(OwnerSlots)

NextOwner ==
    \/ \E s \in OwnerSlots : DOMAIN groups = {} /\ createGroupCreate(s, "u1", FALSE, 0)
    \/ \E s \in OwnerSlots : createGroupInvite(s)
    \/ \E s \in OwnerSlots, userId \in Users : joinGroupFind(s, userId, 1)
    \/ \E s \in OwnerSlots : joinGroupPush(s)
    \/ \E s \in OwnerSlots, userId \in Users : Issued("g1") /\ leaveGroupFind(s, userId, "g1")
    \/ \E s \in OwnerSlots, userId \in Users, memberId \in Users :
          Issued("g1") /\ removeMemberFind(s, userId, "g1", memberId)
    \/ \E s \in OwnerSlots : memberIdsSet(s)
    \/ \E s \in OwnerSlots : nicknameDeleteMany(s)
    \/ \E s \in OwnerSlots, userId \in Users, newAdminId \in Users :
          Issued("g1") /\ transferOwnershipFind(s, userId, "g1", newAdminId)
    \/ \E s \in OwnerSlots : transferOwnershipUpdate(s)

SpecOwner == InitOwner /\ [][NextOwner]_vars

\* Invites: the admin u1 regenerates the code while u2 joins with any code and
\* the clock advances.
NextInvites ==
    \/ \E s \in GroupSlots : DOMAIN groups = {} /\ createGroupCreate(s, "u1", FALSE, 0)
    \/ \E s \in GroupSlots : createGroupInvite(s)
    \/ \E s \in GroupSlots, inviteCode \in InviteCodes : joinGroupFind(s, "u2", inviteCode)
    \/ \E s \in GroupSlots : joinGroupPush(s)
    \/ \E s \in GroupSlots, userId \in Owners : Issued("g1") /\ generateGroupInviteFind(s, userId, "g1")
    \/ \E s \in GroupSlots : generateGroupInviteExpire(s)
    \/ \E s \in GroupSlots : generateGroupInviteCreate(s)
    \/ Tick

SpecInvites == InitGroup /\ [][NextInvites]_vars

-----------------------------------------------------------------------------
(* Joining, one request at a time: u1 and u2 each create a group, u1 asks for *)
(* new codes, u2 and u3 join with any code and the clock advances.            *)

Joiners == {"u2", "u3"}

NextJoin ==
    \/ \E s \in OwnerSlots, adminId \in Owners :
          (\A g \in DOMAIN groups : groups[g].adminId # adminId)
          /\ createGroupCreate(s, adminId, FALSE, 0)
    \/ \E s \in OwnerSlots : createGroupInvite(s)
    \/ \E s \in OwnerSlots, userId \in Joiners, inviteCode \in InviteCodes :
          joinGroupFind(s, userId, inviteCode)
    \/ \E s \in OwnerSlots : joinGroupPush(s)
    \/ \E s \in OwnerSlots, groupId \in GroupIds :
          Issued(groupId) /\ generateGroupInviteFind(s, "u1", groupId)
    \/ \E s \in OwnerSlots : generateGroupInviteExpire(s)
    \/ \E s \in OwnerSlots : generateGroupInviteCreate(s)
    \/ Tick

SpecJoin == InitOwner /\ [][NextJoin]_vars

-----------------------------------------------------------------------------
(* Deleting a group, one request at a time, over the two standing groups:     *)
(* the members write to the groups and to each other, u3 joins with the       *)
(* groups' codes and every user asks to delete either group.                  *)

StandingCodes == {1, 2}

InitDisband ==
    /\ InitStore
    /\ media = <<>>
    /\ rreqs = <<>>
    /\ greqs = [s \in OwnerSlots |-> IdleGroupReq]

NextDisband ==
    \/ \E target \in MsgTargets, expiresAt \in MsgExpiries :
          sendMessage("u2", target[1], target[2], NULL, FALSE, expiresAt)
    \/ \E s \in OwnerSlots, inviteCode \in StandingCodes : joinGroupFind(s, "u3", inviteCode)
    \/ \E s \in OwnerSlots : joinGroupPush(s)
    \/ \E s \in OwnerSlots, userId \in Users, groupId \in GroupIds :
          deleteGroupFind(s, userId, groupId)
    \/ \E s \in OwnerSlots : deleteGroupDelete(s)

SpecDisband == InitDisband /\ [][NextDisband]_vars

-----------------------------------------------------------------------------
(* Membership updates in flight together on the standing group g1 = {u1       *)
(* (admin), u2}: u3 joins with the group's code, u2 leaves, and the admin     *)
(* removes u2 or u3.                                                          *)

InitLost ==
    /\ InitStore
    /\ media = <<>>
    /\ rreqs = <<>>
    /\ greqs = [s \in GroupSlots |-> IdleGroupReq]

NextLost ==
    \/ \E s \in GroupSlots : joinGroupFind(s, "u3", 1)
    \/ \E s \in GroupSlots : joinGroupPush(s)
    \/ \E s \in GroupSlots : leaveGroupFind(s, "u2", "g1")
    \/ \E s \in GroupSlots, memberId \in Joiners : removeMemberFind(s, "u1", "g1", memberId)
    \/ \E s \in GroupSlots : memberIdsSet(s)
    \/ \E s \in GroupSlots : nicknameDeleteMany(s)

SpecLost == InitLost /\ [][NextLost]_vars

-----------------------------------------------------------------------------
(* A group with a default expiry, from an empty store: u1 creates g1 with     *)
(* allowAnonymous and messageExpiry = DefaultExpiry, u2 and u3 join, u1 sends *)
(* to the group without an explicit expiresAt, and u2 reads as the clock      *)
(* advances.                                                                  *)

DefaultExpiry == 1

NextTimed ==
    \/ \E s \in OwnerSlots : DOMAIN groups = {} /\ createGroupCreate(s, "u1", TRUE, DefaultExpiry)
    \/ \E s \in OwnerSlots : createGroupInvite(s)
    \/ \E s \in OwnerSlots, userId \in Joiners : joinGroupFind(s, userId, 1)
    \/ \E s \in OwnerSlots : joinGroupPush(s)
    \/ \E isAnonymous \in BOOLEAN :
          Issued("g1") /\ sendMessage("u1", NULL, "g1", NULL, isAnonymous, NullTime)
    \/ getGroupMessages("u2", "g1")
    \/ Tick

SpecTimed == InitOwner /\ [][NextTimed]_vars

-----------------------------------------------------------------------------
(* Reactions: u1 sends a message to u2 or to g1; u2, and u3 who takes part in *)
(* neither, react to the first message and withdraw, MaxReactReqs requests in *)
(* flight.                                                                    *)

ReactSlots == 1..MaxReactReqs
Emojis == {"like", "heart"}
Reactors == {"u2", "u3"}
ReactMsgIds == {1}

InitReact ==
    /\ InitStore
    /\ greqs = <<>>
    /\ media = <<>>
    /\ rreqs = [s \in ReactSlots |-> IdleReactReq]

NextReact ==
    \/ \E target \in ExpiryTargets : sendMessage("u1", target[1], target[2], NULL, FALSE, NullTime)
    \/ \E s \in ReactSlots, userId \in Reactors, messageId \in ReactMsgIds, emoji \in Emojis :
          addReactionFind(s, userId, messageId, emoji)
    \/ \E s \in ReactSlots : addReactionWrite(s)
    \/ \E s \in ReactSlots, userId \in Reactors, messageId \in ReactMsgIds :
          removeReactionFind(s, userId, messageId)
    \/ \E s \in ReactSlots : removeReactionDelete(s)

SpecReact == InitReact /\ [][NextReact]_vars

-----------------------------------------------------------------------------
(* The message envelope: a message of up to MaxPlain characters is sealed     *)
(* under one of MaxKeys keys, possibly altered, and opened with any key.      *)

MaxPlain == 2
MaxKeys == 2

Chars == {1, 9}         \* a one-byte and a two-byte character
Plaintexts == UNION {[1..n -> Chars] : n \in 0..MaxPlain}
Keys == 1..MaxKeys      \* generateAESKey: the keys in use

IdleStore ==
    /\ now = 0
    /\ otps = {}
    /\ msgs = {}
    /\ files = {}
    /\ groups = <<>>
    /\ invites = {}
    /\ nicknames = {}
    /\ reactions = {}
    /\ media = <<>>
    /\ greqs = <<>>
    /\ rreqs = <<>>
    /\ resp = NoResp
    /\ lastTransfer = [g \in GroupIds |-> <<>>]
    /\ superseded = {}

InitEnvelope ==
    /\ IdleStore
    /\ \E message \in Plaintexts, aesKey \in Keys :
          codec = [pc |-> "start", message |-> message, aesKey |-> aesKey,
                   envelope |-> NoEnvelope, altered |-> "none", opener |-> 0,
                   result |-> NoResult]

NextEnvelope ==
    \/ callEncryptMessage
    \/ alterEnvelope
    \/ \E aesKey \in Keys : callDecryptMessage(aesKey)

SpecEnvelope == InitEnvelope /\ [][NextEnvelope]_vars

-----------------------------------------------------------------------------
(* The wrapped key: one of the keys is wrapped for one of MaxKeyPairs key     *)
(* pairs, possibly corrupted, and unwrapped with any private key.             *)

InitWrap ==
    /\ IdleStore
    /\ \E aesKey \in Keys, pair \in KeyPairs :
          codec = [pc |-> "start", aesKey |-> aesKey, pair |-> pair, blob |-> NoBlob,
                   altered |-> "none", opener |-> 0, result |-> NoResult]

NextWrap ==
    \/ callEncryptKey
    \/ corruptBlob
    \/ \E pair \in KeyPairs : callDecryptKey(pair)

SpecWrap == InitWrap /\ [][NextWrap]_vars

-----------------------------------------------------------------------------
(* Messages that end: u1 sends to u2 and to g1 with the attachment f1, with   *)
(* or without a deadline, and deletes; u2 marks read, fetches the             *)
(* conversation and the attachment, as the clock advances.                    *)

TerminalSlots == {1}

NextTerminal ==
    \/ \E target \in ExpiryTargets, expiresAt \in MsgExpiries :
          sendMessage("u1", target[1], target[2], "f1", FALSE, expiresAt)
    \/ \E messageId \in MsgIds : deleteMessage("u1", messageId)
    \/ \E messageId \in MsgIds : markMessageRead("u2", messageId)
    \/ getMessagesByUser("u2", "u1")
    \/ \E s \in TerminalSlots : getMediaLookup(s, "u2", "f1")
    \/ \E s \in TerminalSlots : getMediaAccess(s)
    \/ \E s \in TerminalSlots : getMediaGrouped(s)
    \/ \E s \in TerminalSlots : getMediaSend(s)
    \/ \E s \in TerminalSlots : getMediaFinish(s)
    \/ Tick

SpecTerminal == InitMsg /\ [][NextTerminal]_vars

-----------------------------------------------------------------------------
(* Fetching conversations: u1 and u3 send to u2 and to g1, every user fetches *)
(* the conversation with every other, and u2 acknowledges messages.           *)

FetchSenders == {"u1", "u3"}

NextFetch ==
    \/ \E senderId \in FetchSenders, target \in ExpiryTargets :
          sendMessage(senderId, target[1], target[2], NULL, FALSE, NullTime)
    \/ \E cur \in Users, other \in Users : getMessagesByUser(cur, other)
    \/ \E messageId \in MsgIds : markMessageRead("u2", messageId)

SpecFetch == InitMsg /\ [][NextFetch]_vars

-----------------------------------------------------------------------------
(* Repeated requests, one at a time, from an empty store: u1 creates g1 and   *)
(* generates invite codes again and again; u1 sends to u2, u2 marks read and  *)
(* u1 deletes, each as often as they like.                                    *)

NextRepeat ==
    \/ \E s \in OwnerSlots : DOMAIN groups = {} /\ createGroupCreate(s, "u1", FALSE, 0)
    \/ \E s \in OwnerSlots : createGroupInvite(s)
    \/ \E s \in OwnerSlots : Issued("g1") /\ generateGroupInviteFind(s, "u1", "g1")
    \/ \E s \in OwnerSlots : generateGroupInviteExpire(s)
    \/ \E s \in OwnerSlots : generateGroupInviteCreate(s)
    \/ sendMessage("u1", "u2", NULL, NULL, FALSE, NullTime)
    \/ \E messageId \in MsgIds : markMessageRead("u2", messageId)
    \/ \E messageId \in MsgIds : deleteMessage("u1", messageId)
    \/ Tick

SpecRepeat == InitOwner /\ [][NextRepeat]_vars

-----------------------------------------------------------------------------
(* The periodic sweep: u1 sends messages with the attachment f1, with or      *)
(* without a deadline, u2 fetches the attachment, and the setInterval of      *)
(* app.js, lines 73-81, runs cleanupExpiredMedia again and again.             *)

NextSweep ==
    \/ \E target \in ExpiryTargets, expiresAt \in MsgExpiries :
          sendMessage("u1", target[1], target[2], "f1", FALSE, expiresAt)
    \/ \E s \in ExpirySlots : getMediaLookup(s, "u2", "f1")
    \/ \E s \in ExpirySlots : getMediaAccess(s)
    \/ \E s \in ExpirySlots : getMediaGrouped(s)
    \/ \E s \in ExpirySlots : getMediaSend(s)
    \/ \E s \in ExpirySlots : getMediaFinish(s)
    \/ cleanupExpiredMedia
    \/ Tick

SpecSweep == InitMsg /\ [][NextSweep]_vars /\ WF_vars(cleanupExpiredMedia)

-----------------------------------------------------------------------------
(* Phone verification: codes are saved for the users (register, login) and    *)
(* presented to verifyPhone as the clock advances.                            *)

InitOtp == IdleStore /\ codec = NoCodec

NextOtp ==
    \/ \E userId \in Users, otp \in Otps : saveOTP(userId, otp)
    \/ \E userId \in Users, otp \in Otps : verifyPhone(userId, otp)
    \/ Tick

SpecOtp == InitOtp /\ [][NextOtp]_vars

-----------------------------------------------------------------------------
(* Lifecycle flags: u1 sends messages with an attachment to u2 and to g1; u2  *)
(* fetches, acknowledges and opens the attachment step by step, while u1     *)
(* deletes messages and the attachment.                                      *)

MaxFlagMsgs == 1

NextFlags ==
    \/ \E target \in ExpiryTargets, expiresAt \in MsgExpiries :
          /\ Cardinality(msgs) < MaxFlagMsgs
          /\ sendMessage("u1", target[1], target[2], "f1", FALSE, expiresAt)
    \/ \E messageId \in MsgIds : markMessageRead("u2", messageId)
    \/ getMessagesByUser("u2", "u1")
    \/ \E messageId \in MsgIds : deleteMessage("u1", messageId)
    \/ deleteMedia("u1", "f1")
    \/ \E s \in TerminalSlots : getMediaLookup(s, "u2", "f1")
    \/ \E s \in TerminalSlots : getMediaAccess(s)
    \/ \E s \in TerminalSlots : getMediaGrouped(s)
    \/ \E s \in TerminalSlots : getMediaSend(s)
    \/ \E s \in TerminalSlots : getMediaFinish(s)

SpecFlags == InitMsg /\ [][NextFlags]_vars

-----------------------------------------------------------------------------
(* Nicknames and departures with requests in flight together: in g1, with    *)
(* members u1 (admin), u2 and u3, members set nicknames while u2 and u3      *)
(* leave or are removed by u1.                                               *)

Leavers == {"u2", "u3"}

InitAlias ==
    /\ StoreWith(<<"u1", "u2", "u3">>)
    /\ media = <<>>
    /\ greqs = [s \in GroupSlots |-> IdleGroupReq]
    /\ rreqs = <<>>

NextAlias ==
    \/ \E s \in GroupSlots, currentUserId \in Users, targetUserId \in Leavers,
          isVisible \in {{}, {FALSE}} :
          /\ \A t \in GroupSlots : greqs[t].op # "setMemberNickname"
          /\ setMemberNicknameFind(s, currentUserId, "g1", targetUserId, "alias", isVisible)
    \/ \E s \in GroupSlots : setMemberNicknameLookup(s)
    \/ \E s \in GroupSlots : setMemberNicknameWrite(s)
    \/ \E s \in GroupSlots, userId \in Leavers : leaveGroupFind(s, userId, "g1")
    \/ \E s \in GroupSlots, memberId \in Leavers : removeMemberFind(s, "u1", "g1", memberId)
    \/ \E s \in GroupSlots : memberIdsSet(s)
    \/ \E s \in GroupSlots : nicknameDeleteMany(s)

SpecAlias == InitAlias /\ [][NextAlias]_vars

-----------------------------------------------------------------------------
(* Group rules with requests handled one at a time: on g1, with admin u1 and *)
(* members u1 and u2, every user sends every group operation, until the      *)
(* group is deleted and after.                                               *)

InitRules ==
    /\ now = 0
    /\ otps = {}
    /\ codec = NoCodec
    /\ msgs = {}
    /\ files = {}
    /\ groups = [g \in {"g1"} |-> [adminId |-> "u1", memberIds |-> <<"u1", "u2">>,
                                    allowAnonymous |-> TRUE, messageExpiry |-> 0]]
    /\ invites = {[groupId |-> "g1", inviteCode |-> 1, expiresAt |-> InviteTTL]}
    /\ nicknames = {}
    /\ reactions = {}
    /\ media = <<>>
    /\ greqs = [s \in OwnerSlots |-> IdleGroupReq]
    /\ rreqs = <<>>
    /\ resp = NoResp
    /\ lastTransfer = [g \in GroupIds |-> <<>>]
    /\ superseded = {}

NextRules ==
    \/ \E s \in OwnerSlots, userId \in Users, inviteCode \in InviteCodes :
          joinGroupFind(s, userId, inviteCode)
    \/ \E s \in OwnerSlots : joinGroupPush(s)
    \/ \E s \in OwnerSlots, userId \in Users : leaveGroupFind(s, userId, "g1")
    \/ \E s \in OwnerSlots, userId \in Users, memberId \in Users :
          removeMemberFind(s, userId, "g1", memberId)
    \/ \E s \in OwnerSlots : memberIdsSet(s)
    \/ \E s \in OwnerSlots : nicknameDeleteMany(s)
    \/ \E s \in OwnerSlots, userId \in Users, newAdminId \in Users :
          transferOwnershipFind(s, userId, "g1", newAdminId)
    \/ \E s \in OwnerSlots : transferOwnershipUpdate(s)
    \/ \E s \in OwnerSlots, userId \in Users : generateGroupInviteFind(s, userId, "g1")
    \/ \E s \in OwnerSlots : generateGroupInviteExpire(s)
    \/ \E s \in OwnerSlots : generateGroupInviteCreate(s)
    \/ \E s \in OwnerSlots, userId \in Users, allowAnonymous \in {{}, {FALSE}} :
          updateGroupFind(s, userId, "g1", allowAnonymous, {})
    \/ \E s \in OwnerSlots : updateGroupUpdate(s)
    \/ \E s \in OwnerSlots, currentUserId \in Users, isVisible \in {{}, {TRUE}} :
          setMemberNicknameFind(s, currentUserId, "g1", "u2", "alias", isVisible)
    \/ \E s \in OwnerSlots : setMemberNicknameLookup(s)
    \/ \E s \in OwnerSlots : setMemberNicknameWrite(s)
    \/ \E s \in OwnerSlots, userId \in Users : deleteGroupFind(s, userId, "g1")
    \/ \E s \in OwnerSlots : deleteGroupDelete(s)

SpecRules == InitRules /\ [][NextRules]_vars

-----------------------------------------------------------------------------
(* Who reads: u1 sends direct messages with an attachment to u2, and every   *)
(* user acknowledges messages and opens the attachment.                      *)

NextViewer ==
    \/ \E expiresAt \in MsgExpiries : sendMessage("u1", "u2", NULL, "f1", FALSE, expiresAt)
    \/ \E userId \in Users, messageId \in MsgIds : markMessageRead(userId, messageId)
    \/ \E s \in TerminalSlots, userId \in Users : getMediaLookup(s, userId, "f1")
    \/ \E s \in TerminalSlots : getMediaAccess(s)
    \/ \E s \in TerminalSlots : getMediaSend(s)
    \/ \E s \in TerminalSlots : getMediaFinish(s)

SpecViewer == InitMsg /\ [][NextViewer]_vars

-----------------------------------------------------------------------------
(* A shared file name: u1 and u2 send each other messages that name the same *)
(* uploaded file, u3 looks on, and every user asks for the file's deletion.  *)

NextShared ==
    \/ \E senderId \in Owners, receiverId \in Owners, expiresAt \in MsgExpiries :
          senderId # receiverId /\ sendMessage(senderId, receiverId, NULL, "f1", FALSE, expiresAt)
    \/ \E userId \in Owners, messageId \in MsgIds : markMessageRead(userId, messageId)
    \/ \E userId \in Users : deleteMedia(userId, "f1")

SpecShared == InitMsg /\ [][NextShared]_vars

-----------------------------------------------------------------------------
(* Reactions on messages that end: u1 sends to u2 and to g1, with or without *)
(* a deadline, and deletes; u2 and u3 react, one request at a time, as the    *)
(* clock advances.                                                            *)

GateSlots == {1}

InitGate ==
    /\ InitStore
    /\ greqs = <<>>
    /\ media = <<>>
    /\ rreqs = [s \in GateSlots |-> IdleReactReq]

NextGate ==
    \/ \E target \in ExpiryTargets, expiresAt \in MsgExpiries :
          sendMessage("u1", target[1], target[2], NULL, FALSE, expiresAt)
    \/ \E messageId \in MsgIds : deleteMessage("u1", messageId)
    \/ \E s \in GateSlots, userId \in Reactors, messageId \in MsgIds, emoji \in Emojis :
          addReactionFind(s, userId, messageId, emoji)
    \/ \E s \in GateSlots : addReactionWrite(s)
    \/ Tick

SpecGate == InitGate /\ [][NextGate]_vars

-----------------------------------------------------------------------------
(* Deletion: u1 and u2 send messages with the attachment f1 to u2 and to g1; *)
(* every user asks to delete them; u2 and u3 read through the three read     *)
(* paths.                                                                    *)

DeleteSlots == {1}
Senders == {"u1", "u2"}
Readers == {"u2", "u3"}

NextDelete ==
    \/ \E senderId \in Senders, target \in ExpiryTargets :
          sendMessage(senderId, target[1], target[2], "f1", FALSE, NullTime)
    \/ \E userId \in Users, messageId \in MsgIds : deleteMessage(userId, messageId)
    \/ \E cur \in Readers : getMessagesByUser(cur, "u1")
    \/ \E cur \in Readers : getGroupMessages(cur, "g1")
    \/ \E s \in DeleteSlots, actor \in Readers : getMediaLookup(s, actor, "f1")
    \/ \E s \in DeleteSlots : getMediaAccess(s)
    \/ \E s \in DeleteSlots : getMediaGrouped(s)

SpecDelete == InitMsg /\ [][NextDelete]_vars

-----------------------------------------------------------------------------
(* Nicknames: g1 = {u1 (admin), u2, u3}, u2 carrying the hidden nickname; the *)
(* members write to g1 and every user reads its messages and its details.     *)

InitNick ==
    /\ StoreWith(<<"u1", "u2", "u3">>)
    /\ media = <<>>
    /\ greqs = <<>>
    /\ rreqs = <<>>

NextNick ==
    \/ \E senderId \in Users, isAnonymous \in BOOLEAN :
          sendMessage(senderId, NULL, "g1", NULL, isAnonymous, NullTime)
    \/ \E cur \in Users : getGroupMessages(cur, "g1")
    \/ \E userId \in Users : getGroupDetails(userId, "g1")

SpecNick == InitNick /\ [][NextNick]_vars

-----------------------------------------------------------------------------
(* Properties *)

ReadPaths == {"getMessagesByUser", "getGroupMessages"}

\* the actor may read r: sender, direct receiver, or member of its group
IsParticipant(r, u) ==
    \/ r.senderId = u
    \/ r.receiverId = u
    \/ r.groupId # NULL /\ IsMember(r.groupId, u)

\* C1: a read path returns a message only to its sender, its direct receiver
\* or a member of its group.
C1_ReadOnlyByParticipants ==
    resp.op \in ReadPaths => \A r \in resp.data : IsParticipant(r, resp.actor)

\* C2: the record getGroupMessages returns for an anonymous message carries the
\* sender's real user id in no field.
C2_AnonymousSenderHidden ==
    resp.op = "getGroupMessages" =>
        \A r \in resp.data : \A m \in msgs :
            (m.id = r.id /\ m.isAnonymous) =>
                /\ r.senderId # m.senderId
                /\ r.sender.id # m.senderId
                /\ r.sender.username = "Anonymous"

\* the deadline had passed when the handler read the clock at `t`
Expired(m, t) == m.expiresAt # NullTime /\ m.expiresAt < t

\* C3: no read path (getMessagesByUser, getGroupMessages, getMedia) returns a
\* message whose expiresAt is earlier than the time of the read, swept or not.
C3_ExpiredNeverReturned ==
    /\ resp.op \in ReadPaths => \A r \in resp.data : ~Expired(r, resp.at)
    /\ \A s \in DOMAIN media :
          media[s].status = 200 => \A m \in media[s].found : ~Expired(m, media[s].at)

\* an expired, unswept message of the conversation that u2 has just fetched is
\* not in the answer, and getMedia has refused its attachment as expired
C3_Witness ==
    \E m \in msgs :
        /\ Expired(m, now) /\ m.mediaUrl # NULL /\ m.receiverId = "u2"
        /\ resp.op = "getMessagesByUser" /\ resp.at = now
        /\ \A r \in resp.data : r.id # m.id
        /\ \E s \in DOMAIN media : media[s].mode = "expired" /\ m \in media[s].found

\* C10: every stored message has exactly one of receiverId and groupId set
\* (sendMessage rejects a request that sets neither or both).
C10_ExactlyOneTarget ==
    \A m \in msgs : (m.receiverId = NULL) # (m.groupId = NULL)

\* C4: of the concurrent getMedia requests for one unread view-once attachment
\* exactly one is served it as view-once, and no request tries to delete a
\* file that is already deleted.
C4_ViewOnceServedOnce ==
    /\ \A s, t \in DOMAIN media :
          (/\ s # t
           /\ media[s].mode = "viewOnce" /\ media[s].status = 200
           /\ media[t].mode = "viewOnce" /\ media[t].status = 200
           /\ media[s].file = media[t].file)
          => \A m \in media[s].found : \A n \in media[t].found : m.id # n.id
    /\ \A s \in DOMAIN media : media[s].unlink # "ENOENT"

\* C5: in every state the admin of every group is one of its members.
C5_AdminIsMember ==
    \A g \in DOMAIN groups : Includes(groups[g].memberIds, groups[g].adminId)

\* a step in which the one request slot takes up, or at once answers, a
\* leaveGroup of user u
LeaveStarts(u) ==
    /\ \A s \in DOMAIN greqs : greqs[s].pc = "idle"
    /\ \E s \in DOMAIN greqs :
          \/ greqs'[s].op = "leaveGroup" /\ greqs'[s].actor = u
          \/ greqs'[s].pc = "idle" /\ resp'.op = "leaveGroup" /\ resp'.actor = u

LeaveRejected ==
    /\ \A s \in DOMAIN greqs : greqs'[s].pc = "idle"
    /\ resp'.status = 400
    /\ UNCHANGED <<groups, nicknames>>

\* the last completed transfer of g1 went from a to b, and still stands
TransferStands(a, b) ==
    /\ "g1" \in DOMAIN groups
    /\ lastTransfer["g1"] = <<a, b>>
    /\ groups["g1"].adminId = b
    /\ a # b

\* C6: with requests handled one at a time, a leaveGroup of the current admin
\* is rejected and changes nothing; after a transfer from A to member B the
\* leaveGroup of A, still a member, is accepted, its write removes A and it
\* answers 200, and the leaveGroup of B is rejected.
C6_AdminCannotLeave ==
    /\ [][\A u \in Users :
            ("g1" \in DOMAIN groups /\ groups["g1"].adminId = u /\ LeaveStarts(u))
                => LeaveRejected]_vars
    /\ [][\A a \in Users, b \in Users :
            TransferStands(a, b) =>
                /\ (LeaveStarts(a) /\ IsMember("g1", a)) =>
                        \E s \in DOMAIN greqs : greqs'[s].pc = "write"
                /\ LeaveStarts(b) => LeaveRejected
                /\ \A s \in DOMAIN greqs :
                      (greqs[s].op = "leaveGroup" /\ greqs[s].actor = a) =>
                          /\ greqs[s].pc = "write" =>
                                (greqs'[s].pc = "nickname" /\ ~Includes(groups'["g1"].memberIds, a))
                          /\ greqs[s].pc = "nickname" =>
                                (resp'.status = 200 /\ ~Includes(groups'["g1"].memberIds, a))]_vars

\* u1 has handed g1 over to u2 and then left: the leave answered 200, u1 is
\* out of the member list and u2 is the admin
C6_Witness ==
    /\ "g1" \in DOMAIN groups
    /\ lastTransfer["g1"] = <<"u1", "u2">>
    /\ groups["g1"].adminId = "u2"
    /\ resp.op = "leaveGroup" /\ resp.actor = "u1" /\ resp.status = 200
    /\ ~IsMember("g1", "u1")

\* C7: in every state each group has at most one invite whose expiresAt is
\* later than the current time.
C7_AtMostOneValidInvite ==
    \A g \in GroupIds :
        Cardinality({i \in invites : i.groupId = g /\ i.expiresAt > now}) <= 1

\* C8: a joinGroup that presents a code issued before a completed
\* generateGroupInvite of the group is rejected and adds nobody.
C8_SupersededCodeRejected ==
    (resp.op = "joinGroup" /\ \E d \in resp.data : d.late) => resp.status = 400

\* C9: storage holds at most one reaction per (message, user); no addReaction
\* fails, and after an addReaction has answered 200 the pair has a stored
\* reaction.
C9_OneReactionPerUser ==
    /\ \A m \in MsgIds, u \in Users :
          Cardinality({r \in reactions : r.messageId = m /\ r.userId = u}) <= 1
    /\ resp.op = "addReaction" =>
          /\ resp.status # 500
          /\ resp.status = 200 =>
                \A d \in resp.data :
                    \E r \in reactions : r.messageId = d.messageId /\ r.userId = resp.actor

\* C11: a read made after deleteMessage has succeeded for a message obtains
\* neither the message (getMessagesByUser, getGroupMessages) nor the attachment
\* it references (getMedia).
C11_DeletedNeverRead ==
    /\ resp.op \in ReadPaths => \A r \in resp.data : ~r.deleted
    /\ \A s \in DOMAIN media :
          media[s].status = 200 => \A m \in media[s].found : ~m.deleted

\* a step in which deleteMessage answers
DeleteAnswers == resp' # resp /\ resp'.op = "deleteMessage"

\* C12: deleteMessage sets the deleted flag of the message named, and nothing
\* else, exactly when the actor is its senderId; any other request is
\* rejected and leaves the store unchanged; no record is ever removed.
C12_OnlySenderDeletes ==
    [][DeleteAnswers =>
        \A d \in resp'.data :
            LET found == {m \in msgs : m.id = d.messageId}
                bySender == \E m \in found : m.senderId = resp'.actor
            IN /\ (resp'.status = 200) = bySender
               /\ ~bySender => msgs' = msgs
               /\ bySender => msgs' = {IF m.id = d.messageId THEN [m EXCEPT !.deleted = TRUE]
                                                              ELSE m : m \in msgs}
               /\ {m.id : m \in msgs'} = {m.id : m \in msgs}]_vars

\* u1, the admin of g1, has been refused the deletion of u2's message to g1,
\* which is stored undeleted, while a message of u1's own is tombstoned
C12_Witness ==
    /\ resp.op = "deleteMessage" /\ resp.status = 403 /\ resp.actor = "u1"
    /\ \E m \in msgs : /\ [messageId |-> m.id] \in resp.data
                        /\ m.senderId = "u2" /\ m.groupId = "g1" /\ ~m.deleted
    /\ \E m \in msgs : m.senderId = "u1" /\ m.deleted

\* C13: every stored anonymous message is addressed to a group, and that group
\* allows anonymous messages (group settings do not change here).
C13_AnonymousOnlyInGroups ==
    \A m \in msgs :
        m.isAnonymous =>
            /\ m.groupId # NULL
            /\ m.groupId \in DOMAIN groups
            /\ groups[m.groupId].allowAnonymous

\* the nickname records that hide a member of g1
HiddenIn(groupId) == {n \in nicknames : n.groupId = groupId /\ ~n.isVisible}

\* C14: of a member of g1 with a hidden nickname, a reader who is neither the
\* admin nor that member gets neither the alias nor the real identity, from
\* getGroupMessages on the member's messages and from getGroupDetails; the
\* admin and the member get the alias.
C14_HiddenAliasRestricted ==
    \A n \in HiddenIn("g1") :
        LET privileged == resp.actor \in {groups["g1"].adminId, n.userId}
        IN /\ (resp.op = "getGroupMessages" /\ resp.status = 200) =>
                 \A r \in resp.data : \A m \in msgs :
                     (m.id = r.id /\ m.senderId = n.userId /\ ~m.isAnonymous) =>
                         IF privileged
                         THEN r.sender.username = n.nickname
                         ELSE /\ r.sender.username # n.nickname
                              /\ r.sender.username # UserName(n.userId)
                              /\ r.sender.id # n.userId
                              /\ r.senderId # n.userId
           /\ (resp.op = "getGroupDetails" /\ resp.status = 200) =>
                 IF privileged
                 THEN \E d \in resp.data : d.id = n.userId /\ d.nickname = n.nickname
                 ELSE \A d \in resp.data : d.id # n.userId

\* C15: getMedia serves a file only to the sender, the direct receiver or a
\* group member of an unexpired message that references the file.
C15_MediaOnlyToParticipants ==
    \A s \in DOMAIN media :
        media[s].status = 200 =>
            \E m \in msgs :
                /\ Contains(m.mediaUrl, media[s].file)
                /\ IsParticipant(m, media[s].actor)
                /\ ~Expired(m, media[s].at)

\* C16: with requests handled one at a time, joinGroup answers 400 and leaves
\* every group unchanged for a code that matches no invite, for an invite
\* whose expiresAt has passed and for an actor who is already a member;
\* otherwise it answers 200, appends the actor to the member list of the
\* invite's group and changes nothing else of any group.
C16_JoinAddsExactlyActor ==
    [][\A s \in DOMAIN greqs :
          (greqs[s].op = "joinGroup" /\ greqs[s].pc = "found" /\ greqs'[s].pc = "idle") =>
              LET r == greqs[s]
                  known == r.invite \in invites
                  rejected == \/ ~known
                              \/ r.invite.expiresAt < now
                              \/ IsMember(r.invite.groupId, r.actor)
              IN /\ (r.invite = NoInvite \/ known)
                 /\ rejected => (resp'.status = 400 /\ groups' = groups)
                 /\ ~rejected =>
                       /\ resp'.status = 200
                       /\ groups' = [groups EXCEPT ![r.invite.groupId].memberIds =
                                                       Append(@, r.actor)]]_vars

\* u3, not a member, has just been refused with a code that a regeneration
\* superseded and whose expiry has passed
C16_Witness ==
    /\ resp.op = "joinGroup" /\ resp.status = 400 /\ resp.actor = "u3"
    /\ \E d \in resp.data :
          /\ d.late /\ ~IsMember(d.groupId, "u3")
          /\ \E i \in invites : i.groupId = d.groupId /\ i.expiresAt < now

\* a step in which the one request slot takes up, or at once answers, a
\* request `op` of user u about user t
Starts(op, u, t) ==
    /\ \A s \in DOMAIN greqs : greqs[s].pc = "idle"
    /\ \E s \in DOMAIN greqs :
          \/ greqs'[s].op = op /\ greqs'[s].actor = u /\ greqs'[s].target = t
          \/ /\ greqs'[s].pc = "idle"
             /\ resp'.op = op /\ resp'.actor = u /\ \E d \in resp'.data : d.target = t

Accepted == \E s \in DOMAIN greqs : greqs'[s].pc = "write"

Refused ==
    /\ \A s \in DOMAIN greqs : greqs'[s].pc = "idle"
    /\ resp'.status \in {400, 403}
    /\ UNCHANGED groups

\* C17: with requests handled one at a time, removeMember goes through
\* exactly when the actor is the admin of g1 and the target is another user
\* who is a member; then its write removes the target from memberIds and
\* changes nothing else of the group, and it answers 200; any other request is
\* refused with the groups unchanged.
C17_RemoveOnlyByAdmin ==
    /\ [][\A u \in Users, t \in Users :
            Starts("removeMember", u, t) =>
                IF groups["g1"].adminId = u /\ t # u /\ IsMember("g1", t)
                THEN Accepted /\ UNCHANGED groups
                ELSE Refused]_vars
    /\ [][\A s \in DOMAIN greqs :
            greqs[s].op = "removeMember" =>
                /\ greqs[s].pc = "write" =>
                      groups' = [groups EXCEPT !["g1"].memberIds = Without(@, greqs[s].target)]
                /\ greqs[s].pc = "nickname" =>
                      (resp'.status = 200 /\ UNCHANGED groups)]_vars

\* the admin u1 has removed u3 while u2 stays a member
C17_Witness ==
    /\ resp.op = "removeMember" /\ resp.status = 200 /\ resp.actor = "u1"
    /\ \E d \in resp.data : d.target = "u3"
    /\ "g1" \in DOMAIN groups /\ groups["g1"].adminId = "u1"
    /\ ~IsMember("g1", "u3") /\ IsMember("g1", "u2")

\* C18: with requests handled one at a time, transferOwnership goes through
\* exactly when the actor is the admin of g1 and newAdminId is a member; then
\* its one write sets adminId to newAdminId and leaves memberIds and the rest
\* of the group as they were, and it answers 200; any other request is refused
\* with adminId and memberIds unchanged.
C18_TransferKeepsMembers ==
    /\ [][\A u \in Users, t \in Users :
            Starts("transferOwnership", u, t) =>
                IF groups["g1"].adminId = u /\ IsMember("g1", t)
                THEN Accepted /\ UNCHANGED groups
                ELSE Refused]_vars
    /\ [][\A s \in DOMAIN greqs :
            (greqs[s].op = "transferOwnership" /\ greqs[s].pc = "write") =>
                /\ groups' = [groups EXCEPT !["g1"].adminId = greqs[s].target]
                /\ groups'["g1"].memberIds = groups["g1"].memberIds
                /\ resp'.status = 200]_vars

\* u1 has handed g1 over to u3, and the three members are who they were
C18_Witness ==
    /\ resp.op = "transferOwnership" /\ resp.status = 200 /\ resp.actor = "u1"
    /\ "g1" \in DOMAIN groups /\ groups["g1"].adminId = "u3"
    /\ \A u \in Users : IsMember("g1", u)

\* a step in which the one request slot takes up, or at once answers, a
\* deleteGroup of group g by user u
DeleteGroupStarts(u, g) ==
    /\ \A s \in DOMAIN greqs : greqs[s].pc = "idle"
    /\ \E s \in DOMAIN greqs :
          \/ greqs'[s].op = "deleteGroup" /\ greqs'[s].actor = u /\ greqs'[s].gid = g
          \/ /\ greqs'[s].pc = "idle"
             /\ resp'.op = "deleteGroup" /\ resp'.actor = u /\ \E d \in resp'.data : d.groupId = g

\* C19: with requests handled one at a time, deleteGroup goes through exactly
\* for the admin of an existing group, and any other request deletes nothing;
\* the delete removes the group and every invite, nickname and message that
\* references it, and leaves the other groups and their invites, nicknames
\* and messages, and the direct messages, as they were; so every stored
\* invite, nickname and group message references a stored group, and a later
\* joinGroup with a code of the deleted group is refused.
C19_DeleteGroupCascades ==
    /\ [][\A u \in Users, g \in GroupIds :
            DeleteGroupStarts(u, g) =>
                /\ UNCHANGED <<msgs, groups, invites, nicknames>>
                /\ IF g \in DOMAIN groups /\ groups[g].adminId = u
                   THEN \E s \in DOMAIN greqs : greqs'[s].pc = "delete"
                   ELSE /\ \A s \in DOMAIN greqs : greqs'[s].pc = "idle"
                        /\ resp'.status \in {403, 404}]_vars
    /\ [][\A s \in DOMAIN greqs :
            (greqs[s].op = "deleteGroup" /\ greqs[s].pc = "delete" /\ greqs'[s].pc = "idle") =>
                LET g == greqs[s].gid
                IN /\ resp'.status = 200
                   /\ DOMAIN groups' = DOMAIN groups \ {g}
                   /\ \A h \in DOMAIN groups' : groups'[h] = groups[h]
                   /\ invites' = {i \in invites : i.groupId # g}
                   /\ nicknames' = {n \in nicknames : n.groupId # g}
                   /\ msgs' = {m \in msgs : m.groupId # g}]_vars
    /\ [](/\ \A i \in invites : i.groupId \in DOMAIN groups
          /\ \A n \in nicknames : n.groupId \in DOMAIN groups
          /\ \A m \in msgs : m.groupId # NULL => m.groupId \in DOMAIN groups
          /\ (resp.op = "joinGroup" /\ \E d \in resp.data : d.groupId \notin DOMAIN groups)
                => resp.status = 400)

\* g1 is deleted with its invite and nickname, u3 has then been refused with
\* its code, and g2 stands with its invite and a message
C19_Witness ==
    /\ "g1" \notin DOMAIN groups /\ "g2" \in DOMAIN groups
    /\ \E i \in invites : i.groupId = "g2"
    /\ \E m \in msgs : m.groupId = "g2"
    /\ \E m \in msgs : m.groupId = NULL
    /\ resp.op = "joinGroup" /\ resp.status = 400 /\ resp.actor = "u3"

\* C20: no membership update is lost: the write of a leaveGroup or of a
\* removeMember that goes on to answer 200 takes its target out of the member
\* list as it stands and changes no other entry, whatever joinGroup, leaveGroup
\* or removeMember has completed since the request read the group.
C20_NoLostMembershipUpdate ==
    [][\A s \in DOMAIN greqs :
          (/\ greqs[s].op \in {"leaveGroup", "removeMember"}
           /\ greqs[s].pc = "write" /\ greqs'[s].pc = "nickname") =>
              groups'["g1"].memberIds = Without(groups["g1"].memberIds, greqs[s].target)]_vars

\* C21: a member's sendMessage to a group with messageExpiry N and no explicit
\* expiresAt answers 201 and stores expiresAt = send time + N; getGroupMessages
\* of another member returns the message, the sender masked if anonymous,
\* while the deadline is ahead and not once it has passed.
C21_GroupDefaultExpiry ==
    /\ resp.op = "sendMessage" =>
          /\ resp.status = 201
          /\ \A m \in resp.data : m.expiresAt = resp.at + groups["g1"].messageExpiry
    /\ (resp.op = "getGroupMessages" /\ resp.status = 200) =>
          /\ \A m \in msgs : (m.expiresAt > resp.at) => \E r \in resp.data : r.id = m.id
          /\ \A r \in resp.data :
                /\ r.expiresAt > resp.at
                /\ r.isAnonymous => r.sender.username = "Anonymous"

\* C22: with requests handled one at a time, an addReaction that stores or
\* updates a reaction is made by the sender, the direct receiver or a current
\* member of the group of a message that is neither deleted nor past its
\* deadline; every addReaction answered otherwise leaves the reactions as
\* they were.
C22_ReactionGate ==
    [][\A s \in DOMAIN rreqs :
          (rreqs[s].op = "addReaction" /\ rreqs'[s].pc = "idle" /\ rreqs[s].pc = "found") =>
             /\ reactions' # reactions =>
                   \E m \in msgs :
                      /\ m.id = rreqs[s].messageId
                      /\ CanReact(m, rreqs[s].actor)
                      /\ ~m.deleted
                      /\ ~Expired(m, now)
             /\ resp'.status # 200 => reactions' = reactions]_vars

AuthFailure == "Unsupported state or unable to authenticate data"

\* C23: for every plaintext p, key k and nonce drawn, decryptMessage of the
\* unaltered encryptMessage(p, k) under k returns p.
C23_OpenSealRoundTrip ==
    (codec.pc = "opened" /\ codec.altered = "none" /\ codec.opener = codec.aesKey) =>
        codec.result = Returned(codec.message)

\* a two-character message with a two-byte character, opened with its key
C23_Witness ==
    /\ codec.pc = "opened" /\ codec.altered = "none" /\ codec.opener = codec.aesKey
    /\ Len(codec.message) = 2
    /\ \E i \in 1..2 : codec.message[i] >= 8
    /\ codec.result.ok

\* C24: decryptMessage under another key than the sealing one, or of an
\* envelope whose nonce, auth tag or ciphertext was altered, returns no
\* plaintext and fails with the authentication error.
C24_WrongKeyOrAlteredFails ==
    (codec.pc = "opened" /\ (codec.opener # codec.aesKey \/ codec.altered # "none")) =>
        (~codec.result.ok /\ codec.result.error = AuthFailure)

\* C25: decryptKey of the unaltered encryptKey(k, pub) under the matching
\* private key returns k; under a private key that does not match, or of a
\* corrupted blob, it fails, and every such failure is of the same kind.
C25_UnwrapInvertsWrap ==
    codec.pc = "unwrapped" =>
        IF codec.opener = codec.pair /\ codec.altered = "none"
        THEN codec.result.ok /\ codec.result.value = codec.aesKey
        ELSE ~codec.result.ok /\ codec.result.error = OaepDecodingError

\* C26: a message that is deleted, or whose deadline has passed, keeps its
\* isDelivered and isRead flags through every later markMessageRead,
\* getMessagesByUser and getMedia step.
C26_TerminalStateIsFinal ==
    [][\A m \in msgs :
          (m.deleted \/ Expired(m, now)) =>
             \A n \in msgs' :
                n.id = m.id => (n.isRead = m.isRead /\ n.isDelivered = m.isDelivered)]_vars

\* C27: after getMessagesByUser of the direct receiver, or getGroupMessages of
\* a group member other than the sender, has returned a message, the stored
\* message has isDelivered set; a fetch by the sender sets it on none of the
\* sender's messages, and a fetch that finds the flag set leaves the message
\* as it is.
C27_DeliveredOnFirstObservation ==
    [][(resp' # resp /\ resp'.op \in {"getMessagesByUser", "getGroupMessages"}
                     /\ resp'.status = 200) =>
          /\ \A r \in resp'.data :
                (IF resp'.op = "getMessagesByUser"
                 THEN r.receiverId = resp'.actor
                 ELSE r.senderId # resp'.actor) =>
                   \E n \in msgs' : n.id = r.id /\ n.isDelivered
          /\ \A m \in msgs :
                (m.senderId = resp'.actor \/ m.isDelivered) => m \in msgs']_vars

\* C28 as claimed: after getMessagesByUser of the receiver, every message it
\* returned that the other user sent to the receiver has isDelivered and
\* isRead set.
C28_FetchSetsDeliveredAndRead ==
    [][\A cur \in Users, other \in Users :
          getMessagesByUser(cur, other) =>
             \A r \in resp'.data :
                (r.senderId = other /\ r.receiverId = cur) =>
                   \E n \in msgs' : n.id = r.id /\ n.isDelivered /\ n.isRead]_vars

\* C28: after getMessagesByUser of the receiver, every message it returned that
\* the other user sent to the receiver has isDelivered set, and the fetch
\* leaves the isRead flag of every message as it was.
C28_FetchSetsDelivered ==
    [][\A cur \in Users, other \in Users :
          getMessagesByUser(cur, other) =>
             /\ \A r \in resp'.data :
                   (r.senderId = other /\ r.receiverId = cur) =>
                      \E n \in msgs' : n.id = r.id /\ n.isDelivered
             /\ \A m \in msgs : \E n \in msgs' : n.id = m.id /\ n.isRead = m.isRead]_vars

\* u2 has fetched the conversation with u1: the message it was given as not yet
\* delivered is now stored as delivered and not read
C28_Witness ==
    /\ resp.op = "getMessagesByUser" /\ resp.actor = "u2"
    /\ \E r \in resp.data :
          /\ r.senderId = "u1" /\ r.receiverId = "u2" /\ ~r.isDelivered
          /\ \E n \in msgs : n.id = r.id /\ n.isDelivered /\ ~n.isRead

\* C29: when getMedia (deadline passed, or first read of a view-once
\* attachment finished) or cleanupExpiredMedia deletes a file, no stored
\* message keeps a mediaUrl that refers to it.
C29_ExpiryClearsMediaUrl ==
    [][\A f \in files \ files' : \A m \in msgs' : ~Contains(m.mediaUrl, f)]_vars

ValidCodes(g, invs, t) == {i \in invs : i.groupId = g /\ i.expiresAt > t}

C32_TokenOnlyForFreshOtp ==
    [][\A userId \in Users, otp \in Otps :
          verifyPhone(userId, otp) =>
             IF \E o \in otps : o.userId = userId /\ o.otp = otp /\ ~(o.expiresAt < now)
             THEN resp'.status = 200
             ELSE resp'.status = 400 /\ resp'.data = {}]_vars

\* C33: in every reachable state every message that is read is delivered,
\* whatever the order in which getMessagesByUser, markMessageRead and the steps
\* of getMedia are taken.
C33_ReadImpliesDelivered ==
    \A m \in msgs : m.isRead => m.isDelivered

\* a message that getMedia has marked while serving its view-once attachment
C33_Witness ==
    /\ \E m \in msgs : m.isRead /\ m.isDelivered /\ m.expiresAt # NullTime
    /\ \E s \in DOMAIN media : media[s].pc = "finish"

\* C34: the lifecycle flags of a message are monotone: no step of any operation
\* takes isDelivered, isRead or deleted of a stored message from true to false.
C34_FlagsMonotone ==
    [][\A m \in msgs : \A n \in msgs' :
          n.id = m.id => /\ m.isDelivered => n.isDelivered
                         /\ m.isRead => n.isRead
                         /\ m.deleted => n.deleted]_vars

\* a read, tombstoned message whose attachment deleteMedia has removed
C34_Witness ==
    /\ resp.op = "deleteMedia" /\ resp.status = 200
    /\ \E m \in msgs : m \in {ClearMedia(x) : x \in resp.data}
                          /\ m.isRead /\ m.isDelivered /\ m.deleted

\* C35: in every reachable state no group's member list holds the same user id
\* twice, also when one user has two joinGroup requests in flight together.
C35_MembersAreDistinct ==
    \A g \in DOMAIN groups :
        \A i, j \in DOMAIN groups[g].memberIds :
            groups[g].memberIds[i] = groups[g].memberIds[j] => i = j

\* C36: in every reachable state a nickname record of a stored group belongs to
\* a current member, unless a leaveGroup or removeMember for that user and group
\* has rewritten the member list and has its deleteMany still to run; this also
\* with a setMemberNickname for the user in flight beside the departure.
C36_NicknamesOnlyForMembers ==
    \A n \in nicknames :
        n.groupId \in DOMAIN groups =>
            \/ IsMember(n.groupId, n.userId)
            \/ \E s \in DOMAIN greqs :
                  /\ greqs[s].op \in {"leaveGroup", "removeMember"}
                  /\ greqs[s].pc = "nickname"
                  /\ greqs[s].target = n.userId /\ greqs[s].gid = n.groupId

GroupOps ==
    {"joinGroup", "leaveGroup", "removeMember", "transferOwnership",
     "generateGroupInvite", "updateGroup", "setMemberNickname", "deleteGroup"}

\* C37: with requests handled one at a time, the step in which a group
\* operation answers 400, 403 or 404 leaves groups (adminId, memberIds and
\* settings), invites and nicknames as they are, and the request has written
\* nothing before: the group it read is the group still stored.
C37_RejectedLeavesGroupAlone ==
    [][(resp' # resp /\ resp'.op \in GroupOps /\ resp'.status \in {400, 403, 404}) =>
          /\ UNCHANGED <<groups, invites, nicknames>>
          /\ \A s \in DOMAIN greqs :
                greqs[s].pc # "idle" => greqs[s].snap = FindGroup(greqs[s].gid)]_vars

\* u2, a member already, has presented the code of g1 and was answered 400
C37_Witness ==
    /\ resp.op = "joinGroup" /\ resp.status = 400 /\ resp.actor = "u2"
    /\ \E d \in resp.data : d.groupId = "g1" /\ IsMember("g1", "u2")

AdminOps ==
    {"removeMember", "generateGroupInvite", "updateGroup", "transferOwnership", "deleteGroup"}

\* what an admin-only operation asks of its target besides the admin check
Applicable(op, u, t) ==
    IF op = "removeMember" THEN t # u /\ IsMember("g1", t)
    ELSE IF op = "transferOwnership" THEN IsMember("g1", t)
    ELSE TRUE

\* C40: with requests handled one at a time, while a completed transfer of g1
\* from A to B stands, every admin-only request that A starts is answered 403
\* with groups, invites and nicknames unchanged, and every such request that B
\* starts passes the admin check: it goes on to its writes and answers 200,
\* unless its target is not one the operation applies to, which answers 400.
C40_AdminOpsFollowAdmin ==
    [][\A a \in Users, b \in Users :
          TransferStands(a, b) =>
             /\ \A op \in AdminOps, t \in Users \cup {NULL} :
                   /\ Starts(op, a, t) =>
                         /\ \A s \in DOMAIN greqs : greqs'[s].pc = "idle"
                         /\ resp'.status = 403
                         /\ UNCHANGED <<groups, invites, nicknames>>
                   /\ Starts(op, b, t) =>
                         IF Applicable(op, b, t)
                         THEN \E s \in DOMAIN greqs : greqs'[s].pc # "idle"
                         ELSE Refused /\ resp'.status = 400
             /\ \A s \in DOMAIN greqs :
                   (greqs[s].op \in AdminOps /\ greqs[s].actor = b /\ greqs'[s].pc = "idle")
                       => resp'.status = 200]_vars

\* u1 has handed g1 over to u2, a setting of the group has been changed, and
\* an updateGroup that u1 sent after the transfer was answered 403
C40_Witness ==
    /\ TransferStands("u1", "u2")
    /\ ~groups["g1"].allowAnonymous
    /\ resp.op = "updateGroup" /\ resp.actor = "u1" /\ resp.status = 403

\* C38: a step that takes isRead of a direct message from false to true, or
\* that removes the file of its view-once attachment, belongs to a request of
\* the message's receiver: a markMessageRead answered to the receiver, or a
\* step of a getMedia that the receiver sent.
C38_OnlyReceiverReads ==
    [][\A m \in msgs :
          (m.groupId = NULL /\ ~m.isRead) =>
             /\ (\E n \in msgs' : n.id = m.id /\ n.isRead) =>
                   \/ resp' # resp /\ resp'.op = "markMessageRead" /\ resp'.actor = m.receiverId
                   \/ \E s \in DOMAIN media : media'[s] # media[s] /\ media[s].actor = m.receiverId
             /\ \A s \in DOMAIN media :
                   (media[s].pc = "finish" /\ media'[s].pc = "done" /\ files' # files
                      /\ \E x \in media[s].found : x.id = m.id)
                       => media[s].actor = m.receiverId]_vars

\* C39: a deleteMedia step that removes a file is taken for an actor who is the
\* sender of every message whose mediaUrl names the file, and a deleteMedia
\* answered 200 leaves the message it matched with mediaUrl and mediaType null.
C39_DeleteMediaOnlyOwnFile ==
    [][(resp' # resp /\ resp'.op = "deleteMedia") =>
          /\ \A f \in files \ files' :
                \A m \in msgs : Contains(m.mediaUrl, f) => m.senderId = resp'.actor
          /\ resp'.status = 200 =>
                \A x \in resp'.data :
                    \E n \in msgs' : n.id = x.id /\ n.mediaUrl = NULL /\ n.mediaType = NULL]_vars

====
